---- MODULE Spec2Model ----
(***************************************************************************)
(* Model of the LEAPS screener.  OptionsDataService (src/unnamed/part_000): *)
(* the strike ladder, the at-the-money strike, the option pricer, the       *)
(* expiration selector and getLeapsChains with its time-bucketed cache.     *)
(* LeapsAnalyzer (part_001), MarketDataService (part_002), the screener     *)
(* API handler (src/api/screener.js) and the front end (src/index/js)       *)
(* follow, each with its own specification.                                 *)
(*                                                                          *)
(* Units.  Prices are integers in cents.  Real-valued quantities of the     *)
(* pricer (moneyness, volatility, time to expiry, time value, the Greeks)   *)
(* are fixed-point integers with One = 10^6 standing for 1.0; prices inside *)
(* the pricer are therefore in millionths of a dollar (Micro).  The code    *)
(* computes in IEEE doubles; the fixed-point operators below compute the    *)
(* same formulas to about six decimal places.  Time is counted in seconds  *)
(* from 00:00 UTC of 1 January of BaseYear; dates are day numbers.         *)
(***************************************************************************)
EXTENDS Integers, Sequences, FiniteSets, TLC

VARIABLES
    lpc, currentPrice, strikes, atmSpot, atmStrike,   \* strike-ladder calls
    ppc, args, quote, deltaRet,                       \* pricer calls
    clock,        \* Date.now(), in seconds
    polygonKey,   \* this.polygonKey is set
    mpc, raw, leapsData, chain,                       \* calls of the synchronous methods
    cache,        \* this.cache: cacheKey -> chain set
    calls,        \* the getLeapsChains invocations
    ticks,        \* clock steps taken
    apc, stockData, optionsData, evaluated, analysis, strategyRet,   \* LeapsAnalyzer calls
    hpc, criteria, screeningCriteria, candidate, passes, leapsAnalysis,
    qualityScore,                                     \* the screener API handler
    alphaKey, twelveKey,   \* this.alphaKey, this.twelveKey are set
    stockCache,   \* MarketDataService's this.cache: cacheKey -> stock record
    stockCalls,   \* the getStockData invocations
    helpPc, risk, liquidity, leapsExpiration,         \* calls of the helper functions
    batch,        \* the getBatchStockData invocation
    runs,         \* the front end's runScreening invocations
    ui,           \* the Run button, the loading indicator, the results and error boxes
    errorTimers   \* pending setTimeout callbacks of showError

ladderVars == <<lpc, currentPrice, strikes, atmSpot, atmStrike>>
pricerVars == <<ppc, args, quote, deltaRet>>
methodVars == <<mpc, raw, leapsData, chain>>
serviceVars == <<cache, calls, ticks>>
analyzerVars == <<apc, stockData, optionsData, evaluated, analysis, strategyRet>>
screenVars == <<hpc, criteria, screeningCriteria, candidate, passes, leapsAnalysis,
                qualityScore>>
stockVars == <<alphaKey, twelveKey, stockCache, stockCalls>>
coreVars == <<ladderVars, pricerVars, clock, polygonKey, methodVars, serviceVars>>
helperVars == <<helpPc, risk, liquidity, leapsExpiration>>
batchVars == <<batch>>
frontVars == <<runs, ui, errorTimers>>
auxVars == <<helperVars, batchVars, frontVars>>
extVars == <<analyzerVars, screenVars, stockVars, auxVars>>
vars == <<coreVars, extVars>>

None == "none"

-----------------------------------------------------------------------------
(* Fixed-point arithmetic *)

One == 1000 * 1000
Kilo == 10 * 100
CentsPerDollar == 10 * 10
MicroPerCent == One \div CentsPerDollar

Abs(x) == IF x < 0 THEN 0 - x ELSE x
Max(a, b) == IF a >= b THEN a ELSE b
Min(a, b) == IF a <= b THEN a ELSE b
Sign(x) == IF x < 0 THEN 0 - 1 ELSE 1

\* floor(|a| * |b| / One) with the sign of a * b, without leaving 32 bits
MulFix(a, b) ==
    LET x == Abs(a)
        y == Abs(b)
        x1 == x \div Kilo
        x0 == x % Kilo
        y1 == y \div Kilo
        y0 == y % Kilo
        mid == x1 * y0 + x0 * y1
        r == x1 * y1 + mid \div Kilo + ((mid % Kilo) * Kilo + x0 * y0) \div One
    IN  Sign(a) * Sign(b) * r

RECURSIVE DivDigits(_, _, _, _)
\* n more decimal digits of r / b (0 <= r < b), appended to acc
DivDigits(r, b, n, acc) ==
    IF n = 0 THEN acc
    ELSE DivDigits((r * 10) % b, b, n - 1, acc * 10 + (r * 10) \div b)

\* floor(a * One / b) for a >= 0, b > 0: the quotient a / b in fixed point
DivFix(a, b) == DivDigits(a % b, b, 6, a \div b)

\* a / b for any sign of a, b # 0
DivFixS(a, b) == Sign(a) * Sign(b) * DivFix(Abs(a), Abs(b))

\* a / n rounded towards zero, n > 0 an integer
DivInt(a, n) == Sign(a) * (Abs(a) \div n)

RECURSIVE SqrtNewton(_, _)
\* Newton's iteration from above: stops at floor(sqrt(x * One))
SqrtNewton(r, x) ==
    LET next == (r + DivFix(x, r)) \div 2
    IN  IF next >= r THEN r ELSE SqrtNewton(next, x)

\* Math.sqrt for x >= 0: the largest r with r * r <= x (in fixed point)
SqrtFix(x) == IF x = 0 THEN 0 ELSE SqrtNewton(Max(x, One), x)

Ln2 == 693147
ExpCutoff == 20 * One

RECURSIVE ExpSeries(_, _, _)
ExpSeries(term, n, r) ==
    IF term = 0 \/ n > 16 THEN 0
    ELSE term + ExpSeries(DivInt(MulFix(term, 0 - r), n), n + 1, r)

RECURSIVE Halve(_, _)
Halve(x, k) == IF k = 0 \/ x = 0 THEN x ELSE Halve(x \div 2, k - 1)

\* Math.exp(-u) for u >= 0
ExpNeg(u) ==
    IF u >= ExpCutoff THEN 0
    ELSE Halve(ExpSeries(One, 1, u % Ln2), u \div Ln2)

RECURSIVE LnSeries(_, _, _, _)
LnSeries(zpow, z2, n, left) ==
    IF left = 0 \/ zpow = 0 THEN 0
    ELSE zpow \div n + LnSeries(MulFix(zpow, z2), z2, n + 2, left - 1)

RECURSIVE LnNorm(_, _)
\* x > 0: <<y, k>> with x = y * 2^k and One <= y < 2 * One
LnNorm(x, k) ==
    IF x >= 2 * One THEN LnNorm(x \div 2, k + 1)
    ELSE IF x < One THEN LnNorm(x * 2, k - 1)
    ELSE <<x, k>>

\* Math.log(x) for x > 0
LnFix(x) ==
    LET yk == LnNorm(x, 0)
        y == yk[1]
        z == DivFix(y - One, y + One)
    IN  yk[2] * Ln2 + 2 * LnSeries(z, MulFix(z, z), 1, 12)

-----------------------------------------------------------------------------
(* Strike ladder: generateStrikePrices, getStrikeInterval, findAtmStrike.   *)
(* Prices and strikes are in cents; every interval is a whole number of     *)
(* cents and a multiple of 2.5, which doubles represent exactly, so the     *)
(* loop's strike += interval is exact in the code as well.                  *)

MaxStrikes == 30

getStrikeInterval(price) ==
    IF price < 25 * CentsPerDollar THEN 250
    ELSE IF price < 50 * CentsPerDollar THEN 5 * CentsPerDollar
    ELSE IF price < 200 * CentsPerDollar THEN 10 * CentsPerDollar
    ELSE IF price < 500 * CentsPerDollar THEN 25 * CentsPerDollar
    ELSE 50 * CentsPerDollar

Take(s, n) == SubSeq(s, 1, Min(Len(s), n))

RECURSIVE StrikeLoop(_, _, _)
\* for (strike = start; strike <= end; strike += interval) if (strike > 0) push
StrikeLoop(strike, end, interval) ==
    IF strike > end THEN <<>>
    ELSE (IF strike > 0 THEN <<strike>> ELSE <<>>)
         \o StrikeLoop(strike + interval, end, interval)

\* Math.floor(currentPrice * 0.5 / interval) * interval
LadderStart(price, interval) == (price \div (2 * interval)) * interval

\* Math.ceil(currentPrice * 2.0 / interval) * interval
LadderEnd(price, interval) == ((2 * price + interval - 1) \div interval) * interval

\* the slice forgotten
LadderSliceUncapped(s) == s

\* strikes.slice(0, 30)
LadderSlice(s) == Take(s, MaxStrikes)

generateStrikePrices(price) ==
    LET interval == getStrikeInterval(price)
    IN  LadderSlice(StrikeLoop(LadderStart(price, interval),
                               LadderEnd(price, interval), interval))

\* <= for <: of two equally close strikes the later one wins
AtmCloserLastWins(prev, curr, price) ==
    IF Abs(curr - price) <= Abs(prev - price) THEN curr ELSE prev

\* the callback of strikes.reduce((prev, curr) => ...)
AtmCloser(prev, curr, price) ==
    IF Abs(curr - price) < Abs(prev - price) THEN curr ELSE prev

RECURSIVE AtmReduce(_, _, _, _)
AtmReduce(s, i, prev, price) ==
    IF i > Len(s) THEN prev
    ELSE AtmReduce(s, i + 1, AtmCloser(prev, s[i], price), price)

\* reduce without an initial value: the first element seeds it (s non-empty)
findAtmStrike(s, price) == AtmReduce(s, 2, s[1], price)

-----------------------------------------------------------------------------
(* Option pricer: generateOptionData and its helpers. *)

\* this.erf: Abramowitz-Stegun 7.1.26 with the code's coefficients
ErfA1 == 254830
ErfA2 == -284497
ErfA3 == 1421414
ErfA4 == -1453152
ErfA5 == 1061405
ErfP == 327591
\* Math.exp(-x * x) is below 10^-8 from here on
ErfTail == 4500 * Kilo

erf(x0) ==
    LET sign == IF x0 >= 0 THEN 1 ELSE 0 - 1
        x == Abs(x0)
        t == DivFix(One, One + MulFix(ErfP, x))
        e == IF x >= ErfTail THEN 0 ELSE ExpNeg(MulFix(x, x))
        poly == MulFix(MulFix(MulFix(MulFix(MulFix(ErfA5, t) + ErfA4, t)
                                     + ErfA3, t) + ErfA2, t) + ErfA1, t)
        y == One - MulFix(poly, e)
    IN  sign * y

Sqrt2 == SqrtFix(2 * One)

normalCDF(x) == (One + erf(DivFixS(x, Sqrt2))) \div 2

calculateTimeValue(moneyness, timeToExpiry, volatility) ==
    LET atm == Abs(moneyness - One)
        timeFactor == SqrtFix(timeToExpiry)
        volFactor == volatility
    IN  MulFix(MulFix(MulFix(4 * (One \div 10), timeFactor), volFactor) * 100,
               ExpNeg(atm * 2))

\* the subtraction the wrong way round
PutDeltaSwapped(delta) == One - delta

CallDelta(delta) == delta
PutDelta(delta) == delta - One

calculateDelta(type, moneyness, timeToExpiry, volatility) ==
    LET d1 == DivFixS(LnFix(DivFix(One, moneyness))
                        + MulFix(MulFix(MulFix(One \div 2, volatility), volatility),
                                 timeToExpiry),
                      MulFix(volatility, SqrtFix(timeToExpiry)))
        delta == normalCDF(d1)
    IN  IF type = "call" THEN CallDelta(delta) ELSE PutDelta(delta)

calculateTheta(timeValue, daysToExpiry) == 0 - (timeValue \div daysToExpiry)

PiFix == 3141593

calculateGamma(moneyness, timeToExpiry, volatility) ==
    LET l == LnFix(moneyness)
    IN  DivFix(ExpNeg(MulFix(l, l) \div 2),
               MulFix(volatility, SqrtFix(MulFix(timeToExpiry * 2, PiFix))))

calculateVega(timeToExpiry, volatility) == MulFix(SqrtFix(timeToExpiry), One \div 10)

MoneynessLabel(moneyness) ==
    IF moneyness > One THEN "OTM"
    ELSE IF moneyness < 95 * (One \div 100) THEN "ITM"
    ELSE "ATM"

\* 0.25 + Math.random() * 0.3
DrawVolatility(r) == 25 * (One \div 100) + MulFix(r, 3 * (One \div 10))
\* 0.02 + Math.random() * 0.03
DrawSpreadFraction(r) == 2 * (One \div 100) + MulFix(r, 3 * (One \div 100))
\* Math.floor(Math.random() * 1000 + 10)
DrawVolume(r) == (r * 1000) \div One + 10
\* Math.floor(Math.random() * 10000 + 100)
DrawOpenInterest(r) == (r * 100) \div (One \div 100) + 100

\* the call's formula for both types
IntrinsicCallOnly(type, strike, spotPrice) == Max(spotPrice - strike, 0)

Intrinsic(type, strike, spotPrice) ==
    IF type = "call" THEN Max(spotPrice - strike, 0) ELSE Max(strike - spotPrice, 0)

MinBid == 5 * (One \div 100)

QuoteBid(price, spread) == Max(price - spread \div 2, MinBid)
QuoteAsk(price, spread) == price + spread \div 2
QuoteMid(price, spread) == price

\* stands for the NaN or the Infinity a field holds
NonFinite == "NaN"

ReportedDeltaSigned(delta) == delta

\* delta: Math.abs(delta)
ReportedDelta(delta) == Abs(delta)

\* rnd: the values Math.random() returns (fixed point, in [0, One))
PricedQuote(type, strike, spotPrice, daysToExpiry, rnd) ==
    LET timeToExpiry == DivFix(daysToExpiry, 365)
        volatility == DrawVolatility(rnd.vol)
        moneyness == DivFix(strike, spotPrice)
        intrinsic == Intrinsic(type, strike, spotPrice) * MicroPerCent
        timeValue == calculateTimeValue(moneyness, timeToExpiry, volatility)
        price == intrinsic + timeValue
        delta == calculateDelta(type, moneyness, timeToExpiry, volatility)
        spread == MulFix(price, DrawSpreadFraction(rnd.spread))
    IN  [ bid |-> QuoteBid(price, spread),
          ask |-> QuoteAsk(price, spread),
          midPrice |-> QuoteMid(price, spread),
          volume |-> DrawVolume(rnd.volume),
          openInterest |-> DrawOpenInterest(rnd.oi),
          impliedVolatility |-> volatility,
          delta |-> ReportedDelta(delta),
          gamma |-> calculateGamma(moneyness, timeToExpiry, volatility),
          theta |-> calculateTheta(timeValue, daysToExpiry),
          vega |-> calculateVega(timeToExpiry, volatility),
          intrinsicValue |-> intrinsic,
          timeValue |-> timeValue,
          moneyness |-> MoneynessLabel(moneyness),
          breakeven |-> IF type = "call" THEN strike * MicroPerCent + price
                        ELSE strike * MicroPerCent - price,
          maxLoss |-> price ]

\* daysToExpiry = 0: timeToExpiry is 0, so the time value is 0, d1 divides by 0
\* and theta is -0 / 0
ExpiringQuote(type, strike, spotPrice, rnd) ==
    LET moneyness == DivFix(strike, spotPrice)
        price == Intrinsic(type, strike, spotPrice) * MicroPerCent
        spread == MulFix(price, DrawSpreadFraction(rnd.spread))
        callDelta == IF moneyness < One THEN One ELSE 0
    IN  [ bid |-> QuoteBid(price, spread),
          ask |-> QuoteAsk(price, spread),
          midPrice |-> QuoteMid(price, spread),
          volume |-> DrawVolume(rnd.volume),
          openInterest |-> DrawOpenInterest(rnd.oi),
          impliedVolatility |-> DrawVolatility(rnd.vol),
          delta |-> IF moneyness = One THEN NonFinite
                    ELSE IF type = "call" THEN callDelta ELSE One - callDelta,
          gamma |-> NonFinite,
          theta |-> NonFinite,
          vega |-> 0,
          intrinsicValue |-> price,
          timeValue |-> 0,
          moneyness |-> MoneynessLabel(moneyness),
          breakeven |-> IF type = "call" THEN strike * MicroPerCent + price
                        ELSE strike * MicroPerCent - price,
          maxLoss |-> price ]

\* daysToExpiry < 0: Math.sqrt(timeToExpiry) is NaN and so is all that uses it
ExpiredQuote(type, strike, spotPrice, rnd) ==
    [ bid |-> NonFinite,
      ask |-> NonFinite,
      midPrice |-> NonFinite,
      volume |-> DrawVolume(rnd.volume),
      openInterest |-> DrawOpenInterest(rnd.oi),
      impliedVolatility |-> DrawVolatility(rnd.vol),
      delta |-> NonFinite,
      gamma |-> NonFinite,
      theta |-> NonFinite,
      vega |-> NonFinite,
      intrinsicValue |-> Intrinsic(type, strike, spotPrice) * MicroPerCent,
      timeValue |-> NonFinite,
      moneyness |-> MoneynessLabel(DivFix(strike, spotPrice)),
      breakeven |-> NonFinite,
      maxLoss |-> NonFinite ]

\* the fields annualizedReturn and maxGain are left out: nothing modelled reads them
generateOptionData(type, strike, spotPrice, daysToExpiry, rnd) ==
    IF daysToExpiry >= 1 THEN PricedQuote(type, strike, spotPrice, daysToExpiry, rnd)
    ELSE IF daysToExpiry = 0 THEN ExpiringQuote(type, strike, spotPrice, rnd)
    ELSE ExpiredQuote(type, strike, spotPrice, rnd)

-----------------------------------------------------------------------------
(* Time and the calendar.  Instants are seconds since 00:00 of 1 January of  *)
(* BaseYear; the server's local time zone is taken to be UTC, so that        *)
(* new Date(y, m, d) and toISOString() use the same calendar day.            *)

SecondsPerDay == 24 * 60 * 60
BaseYear == 2026
MaxStartYears == 2

IsLeap(y) == y % 4 = 0 /\ (y % 100 # 0 \/ y % 400 = 0)
DaysInYear(y) == IF IsLeap(y) THEN 366 ELSE 365
MonthDays(y) ==
    <<31, IF IsLeap(y) THEN 29 ELSE 28, 31, 30, 31, 30, 31, 31, 30, 31, 30, 31>>

RECURSIVE YearStartDay(_)
YearStartDay(y) ==
    IF y <= BaseYear THEN 0 ELSE YearStartDay(y - 1) + DaysInYear(y - 1)

RECURSIVE SumFirst(_, _)
SumFirst(s, n) == IF n = 0 THEN 0 ELSE s[n] + SumFirst(s, n - 1)

\* new Date(year, monthIndex, day): midnight of that day
DateOf(year, monthIndex, day) ==
    (YearStartDay(year) + SumFirst(MonthDays(year), monthIndex) + day - 1) * SecondsPerDay

RECURSIVE YearFrom(_, _)
YearFrom(y, t) ==
    IF t < (YearStartDay(y) + DaysInYear(y)) * SecondsPerDay THEN y
    ELSE YearFrom(y + 1, t)

\* date.getFullYear()
getFullYear(t) == YearFrom(BaseYear, t)

\* date.toISOString().split('T')[0]: the calendar day, as a day number
IsoDate(t) == t \div SecondsPerDay

\* new Date('YYYY-MM-DD'): midnight UTC of that day
ParseIsoDate(d) == d * SecondsPerDay

\* Math.ceil(a / b), b > 0
CeilDiv(a, b) == 0 - ((0 - a) \div b)

-----------------------------------------------------------------------------
(* Sequences: filter, sort, de-duplicate, slice. *)

RECURSIVE Insert(_, _)
Insert(x, s) ==
    IF s = <<>> THEN <<x>>
    ELSE IF x < Head(s) THEN <<x>> \o s
    ELSE <<Head(s)>> \o Insert(x, Tail(s))

\* the sort forgotten
SortAscSkipped(s) == s

RECURSIVE SortAsc(_)
\* a stable ascending sort
SortAsc(s) == IF s = <<>> THEN <<>> ELSE Insert(Head(s), SortAsc(Tail(s)))

Contains(s, x) == \E i \in 1..Len(s) : s[i] = x

RECURSIVE Dedupe(_, _)
\* [...new Set(s)]: first occurrences, in order
Dedupe(s, seen) ==
    IF s = <<>> THEN seen
    ELSE Dedupe(Tail(s), IF Contains(seen, Head(s)) THEN seen ELSE Append(seen, Head(s)))

-----------------------------------------------------------------------------
(* Chains: getCurrentPrice, generateLeapsChain, processOptionsData,          *)
(* generateMockLeapsData.                                                    *)
(*                                                                           *)
(* An upstream blob is a record [kind, dates, quote]: kind "dateKeyed" is    *)
(* Yahoo's shape (dates: the expirationDates, unix seconds, or Invalid for   *)
(* an entry parseInt cannot read), "contracts" is Polygon's array (dates:    *)
(* the expiration_date of each contract, an ISO day), "other" is an object   *)
(* of neither shape, "undefined" is no blob at all.  quote is                *)
(* quote.regularMarketPrice in cents, or None.                               *)
(*                                                                           *)
(* A chain keeps the spot, the expiration instant and the random draws it    *)
(* was priced with; its options array is ChainOptions(chain).                *)

\* an Invalid Date (a time no upstream date has)
Invalid == 0 - 1
\* no quote, or a regularMarketPrice of 0: both are falsy
NoQuote == 0
MaxExpirations == 4
LeapsThresholdDays == 9 * 30

\* new Date(currentDate.getTime() + 9 * 30 * 24 * 60 * 60 * 1000)
LeapsThreshold(now) == now + LeapsThresholdDays * SecondsPerDay

\* >= for >: a date on the threshold passes
AfterThresholdInclusive(date, now) == date # Invalid /\ date >= LeapsThreshold(now)

\* date > leapsThreshold; an Invalid Date compares false
AfterThreshold(date, now) == date # Invalid /\ date > LeapsThreshold(now)

\* .slice(0, 4)
TopExpirations(s) == Take(s, MaxExpirations)

getCurrentPrice(rawData, randomPrice) ==
    IF rawData.quote # NoQuote THEN rawData.quote ELSE randomPrice

\* draw: [price: Math.random() * 400 + 50 in cents, rnd: the pricer's draws]
generateLeapsChain(expiration, rawData, now, draw) ==
    LET price == getCurrentPrice(rawData, draw.price)
        daysToExpiry == CeilDiv(expiration - now, SecondsPerDay)
        ladder == generateStrikePrices(price)
    IN  [ expiration |-> IsoDate(expiration),
          daysToExpiry |-> daysToExpiry,
          totalStrikes |-> Len(ladder),
          atmStrike |-> findAtmStrike(ladder, price),
          strikes |-> ladder,
          spot |-> price,
          expirationTime |-> expiration,
          rnd |-> draw.rnd ]

\* the options array of a chain
ChainOptions(c) ==
    [ i \in 1..Len(c.strikes) |->
        [ strike |-> c.strikes[i],
          call |-> generateOptionData("call", c.strikes[i], c.spot, c.daysToExpiry, c.rnd),
          put |-> generateOptionData("put", c.strikes[i], c.spot, c.daysToExpiry, c.rnd) ] ]

\* Yahoo: expirations.map(parse).filter(> threshold).sort((a, b) => a - b).slice(0, 4)
SelectDateKeyed(dates, now) ==
    TopExpirations(SortAsc(SelectSeq(dates, LAMBDA d : AfterThreshold(d, now))))

\* Polygon: [...new Set(dates.filter(> threshold))].sort().slice(0, 4).map(new Date)
SelectContracts(dates, now) ==
    LET kept == SelectSeq(dates,
                    LAMBDA d : d # Invalid /\ AfterThreshold(ParseIsoDate(d), now))
        top == TopExpirations(SortAsc(Dedupe(kept, <<>>)))
    IN  [ i \in 1..Len(top) |-> ParseIsoDate(top[i]) ]

leapsExpirationsOf(rawData, now) ==
    IF rawData.kind = "dateKeyed" THEN SelectDateKeyed(rawData.dates, now)
    ELSE IF rawData.kind = "contracts" THEN SelectContracts(rawData.dates, now)
    ELSE <<>>

DataSourceOf(key) == IF key THEN "polygon" ELSE "yahoo"

\* draws[i]: the draws of the i-th generateLeapsChain call
processOptionsData(ticker, rawData, now, key, draws) ==
    LET leapsExpirations == leapsExpirationsOf(rawData, now)
        leapsChains == [ i \in 1..Len(leapsExpirations) |->
                           generateLeapsChain(leapsExpirations[i], rawData, now, draws[i]) ]
    IN  [ ticker |-> ticker,
          currentDate |-> now,
          leapsAvailable |-> Len(leapsChains) > 0,
          totalExpirations |-> Len(leapsChains),
          chains |-> leapsChains,
          dataSource |-> DataSourceOf(key) ]

\* Jan 15 and Jun 15 of the next two years
MockSchedule(now) ==
    LET y == getFullYear(now)
    IN  << DateOf(y + 1, 0, 15), DateOf(y + 1, 5, 15),
           DateOf(y + 2, 0, 15), DateOf(y + 2, 5, 15) >>

MockExpirations(now) ==
    SelectSeq(MockSchedule(now), LAMBDA d : AfterThreshold(d, now))

\* draws[1].price is the one random currentPrice; every chain is given it as its quote
generateMockLeapsData(ticker, now, draws) ==
    LET price == draws[1].price
        expirations == MockExpirations(now)
        chains == [ i \in 1..Len(expirations) |->
                      generateLeapsChain(expirations[i],
                          [kind |-> "other", dates |-> <<>>, quote |-> price],
                          now, draws[i]) ]
    IN  [ ticker |-> ticker,
          currentDate |-> now,
          leapsAvailable |-> TRUE,
          totalExpirations |-> Len(chains),
          chains |-> chains,
          dataSource |-> "mock" ]

-----------------------------------------------------------------------------
(* What each group of variables holds while another specification runs. *)

LadderIdle ==
    lpc = "idle" /\ currentPrice = 0 /\ strikes = <<>> /\ atmSpot = 0 /\ atmStrike = 0
PricerIdle == ppc = "idle" /\ args = None /\ quote = None /\ deltaRet = None
MethodsIdle == mpc = "idle" /\ raw = None /\ leapsData = None /\ chain = None
ServiceIdle == cache = <<>> /\ calls = <<>> /\ ticks = 0
ClockIdle == clock = 0 /\ polygonKey = FALSE

\* an absent (undefined) number of a record
NoValue == 0 - 1

NoStock == [ticker |-> "", close |-> 0, total_revenue_yoy_growth_ttm |-> 0,
            price_target_1y_delta |-> 0, price_earnings_ttm |-> 0,
            return_on_equity |-> 0, beta_1_year |-> NoValue]
NoOptions == [leapsAvailable |-> FALSE, chains |-> <<>>]
NoAnalysis == [leapsAvailable |-> FALSE, totalRecommendations |-> 0,
               recommendations |-> <<>>]
NoReturn == [strategy |-> "", threw |-> FALSE, viable |-> FALSE, reason |-> "",
             hasReturn |-> FALSE, expectedReturn |-> 0, strike |-> 0, expiration |-> 0,
             shortStrike |-> 0, shortExpiration |-> 0]

AnalyzerIdle ==
    /\ apc = "idle" /\ stockData = NoStock /\ optionsData = NoOptions
    /\ evaluated = <<>> /\ analysis = NoAnalysis /\ strategyRet = NoReturn
ScreenIdle ==
    /\ hpc = "idle" /\ criteria = <<>> /\ screeningCriteria = <<>> /\ candidate = <<>>
    /\ passes = FALSE /\ leapsAnalysis = <<>> /\ qualityScore = 0
StockIdle ==
    /\ alphaKey = FALSE /\ twelveKey = FALSE /\ stockCache = <<>> /\ stockCalls = <<>>
NoRisk == [beta_1_year |-> 0, debt_to_equity |-> 0, return_on_equity |-> 0,
           market_cap_basic |-> 0, analyzer |-> "", api |-> ""]
NoLiquidity == [chains |-> <<>>, ret |-> ""]
NoExpiration == [now |-> <<0, 0, 0>>, monthsOut |-> 0, ret |-> <<0, 0, 0>>]
HelperIdle ==
    /\ helpPc = "idle"
    /\ risk = NoRisk
    /\ liquidity = NoLiquidity
    /\ leapsExpiration = NoExpiration
NoBatch == [pc |-> "idle", tickers |-> 0, maxConcurrent |-> 0, i |-> 0, inFlight |-> {},
            results |-> <<>>, startedAt |-> 0, settledAt |-> 0, delayUntil |-> 0,
            batches |-> 0]
BatchIdle == batch = NoBatch
FrontIdle == runs = <<>> /\ ui = <<>> /\ errorTimers = 0
AuxIdle == HelperIdle /\ BatchIdle /\ FrontIdle
ExtIdle == AnalyzerIdle /\ ScreenIdle /\ StockIdle /\ AuxIdle

-----------------------------------------------------------------------------
(* Calls of the strike-ladder functions on their own. *)

SpotStep == CentsPerDollar \div 4
MaxSpotSteps == 2400
\* spots above the grid: quote.regularMarketPrice of a high-priced share
HighSpots == {1000 * CentsPerDollar, 3000 * CentsPerDollar, 3500 * CentsPerDollar}
SpotSet == {k * SpotStep : k \in 1..MaxSpotSteps} \cup HighSpots

\* spots handed to findAtmStrike: the ladder's own spot, and spots below,
\* inside and above the ladder
AtmProbes(price) == {price, price \div 4, price + 5 * SpotStep, 3 * price}

LadderInit ==
    /\ lpc = "start"
    /\ currentPrice \in SpotSet
    /\ strikes = <<>>
    /\ atmSpot = 0
    /\ atmStrike = 0
    /\ PricerIdle /\ MethodsIdle /\ ServiceIdle /\ ClockIdle /\ ExtIdle

GenerateStrikePrices ==
    /\ lpc = "start"
    /\ strikes' = generateStrikePrices(currentPrice)
    /\ lpc' = "ladder"
    /\ UNCHANGED <<currentPrice, atmSpot, atmStrike, pricerVars, clock, polygonKey,
                   methodVars, serviceVars, extVars>>

FindAtmStrike ==
    /\ lpc = "ladder"
    /\ \E s \in AtmProbes(currentPrice) :
          /\ s > 0
          /\ atmSpot' = s
          /\ atmStrike' = findAtmStrike(strikes, s)
    /\ lpc' = "atm"
    /\ UNCHANGED <<currentPrice, strikes, pricerVars, clock, polygonKey,
                   methodVars, serviceVars, extVars>>

LadderNext == GenerateStrikePrices \/ FindAtmStrike

SpecLadder == LadderInit /\ [][LadderNext]_vars

-----------------------------------------------------------------------------
(* Calls of the pricer on its own. *)

PricerSpotStep == 25 * CentsPerDollar
PricerStrikeStep == 5 * CentsPerDollar
MaxPricerSpotSteps == 4
MaxPricerStrikeSteps == 40
PricerSpots == {k * PricerSpotStep : k \in 1..MaxPricerSpotSteps}
PricerStrikes == {k * PricerStrikeStep : k \in 1..MaxPricerStrikeSteps}
DaysSet == {1, 30, 271, 365, 730}
\* values of Math.random(): the ends and the middle of [0, 1)
RandSet == {0, One \div 2, One - 1}
RndSet == [vol : RandSet, spread : RandSet, volume : {One \div 2}, oi : {One \div 2}]
OptionTypes == {"call", "put"}

PricerInit ==
    /\ ppc = "start"
    /\ args \in [type : OptionTypes, strike : PricerStrikes, spotPrice : PricerSpots,
                 daysToExpiry : DaysSet, rnd : RndSet]
    /\ quote = None
    /\ deltaRet = None
    /\ LadderIdle /\ MethodsIdle /\ ServiceIdle /\ ClockIdle /\ ExtIdle

GenerateOptionData ==
    /\ ppc = "start"
    /\ quote' = generateOptionData(args.type, args.strike, args.spotPrice,
                                   args.daysToExpiry, args.rnd)
    /\ ppc' = "priced"
    /\ UNCHANGED <<args, deltaRet, ladderVars, clock, polygonKey, methodVars, serviceVars, extVars>>

ArgMoneyness == DivFix(args.strike, args.spotPrice)
ArgTimeToExpiry == DivFix(args.daysToExpiry, 365)
ArgVolatility == DrawVolatility(args.rnd.vol)

CalculateDelta ==
    /\ ppc = "start"
    /\ deltaRet' = calculateDelta(args.type, ArgMoneyness, ArgTimeToExpiry, ArgVolatility)
    /\ ppc' = "delta"
    /\ UNCHANGED <<args, quote, ladderVars, clock, polygonKey, methodVars, serviceVars, extVars>>

PricerNext == GenerateOptionData \/ CalculateDelta

SpecPricer == PricerInit /\ [][PricerNext]_vars

-----------------------------------------------------------------------------
(* Inputs of the chain builders: start times, upstream blobs, random draws. *)

StartYears == BaseYear..(BaseYear + MaxStartYears - 1)

\* the instants at which a date of the mock schedule crosses the threshold,
\* a second before and after them, and the ends and the middle of the year
StartTimesOf(y) ==
    { d - LeapsThresholdDays * SecondsPerDay + o :
        d \in {DateOf(y + 1, 0, 15), DateOf(y + 1, 5, 15)}, o \in {0 - 1, 0, 1} }
    \cup { DateOf(y, 0, 1), DateOf(y, 1, 29) + SecondsPerDay \div 2,
           DateOf(y, 6, 4) + 45296, DateOf(y, 11, 31) + SecondsPerDay - 1 }

StartTimes == UNION { StartTimesOf(y) : y \in StartYears }

Reverse(q) == [i \in 1..Len(q) |-> q[Len(q) + 1 - i]]

RECURSIVE Descending(_)
Descending(S) ==
    IF S = {} THEN <<>>
    ELSE LET m == CHOOSE x \in S : \A z \in S : z <= x
         IN  <<m>> \o Descending(S \ {m})

\* the lists made of the values of a subset of C: in descending order, with or
\* without an unreadable entry in front, once or followed by a second copy
UpstreamLists(C) ==
    { (IF bad THEN <<Invalid>> ELSE <<>>) \o Descending(D)
        \o (IF twice THEN Reverse(Descending(D)) ELSE <<>>) :
        D \in SUBSET C, bad \in BOOLEAN, twice \in BOOLEAN }

Days(n) == n * SecondsPerDay

\* unix times around the threshold: on it, just after it (three of them on
\* the same or the next day) and well after it
TimeCandidates(now) ==
    LET t == LeapsThreshold(now)
    IN  {t, t + 1, t + 2, t + Days(1), t + Days(40), t + Days(400)}

\* ISO days around the threshold's day
DayCandidates(now) ==
    LET d == IsoDate(LeapsThreshold(now))
    IN  {d, d + 1, d + 2, d + 3, d + 40, d + 400}

QuotePrices == {120 * CentsPerDollar}
\* values of Math.random() * 400 + 50
FallbackPrices == {50 * CentsPerDollar, 175 * CentsPerDollar}
ChainRnds == [vol : {One \div 2}, spread : {One \div 2}, volume : {One \div 2},
              oi : {One \div 2}]

\* the draws of up to four generateLeapsChain calls
DrawSeqs ==
    { [ i \in 1..MaxExpirations |->
          [price |-> IF i % 2 = 1 THEN p ELSE q, rnd |-> r] ] :
        p \in FallbackPrices, q \in FallbackPrices, r \in ChainRnds }

YahooBlobs(C) ==
    [kind : {"dateKeyed"}, dates : UpstreamLists(C), quote : QuotePrices \cup {NoQuote}]
    \cup [kind : {"other"}, dates : {<<>>}, quote : QuotePrices \cup {NoQuote}]

PolygonBlobs(C) == [kind : {"contracts"}, dates : UpstreamLists(C), quote : {NoQuote}]

\* Yahoo's result[0] of an empty result array
Undefined == [kind |-> "undefined", dates |-> <<>>, quote |-> NoQuote]
\* the fetch threw: there is no blob
NoBlob == [kind |-> "none", dates |-> <<>>, quote |-> NoQuote]
NoData == [ticker |-> "", currentDate |-> 0, leapsAvailable |-> FALSE,
           totalExpirations |-> 0, chains |-> <<>>, dataSource |-> "none"]

Tickers == {"AAPL", "MSFT"}

-----------------------------------------------------------------------------
(* Calls of processOptionsData, generateMockLeapsData and generateLeapsChain *)
(* on their own.                                                             *)

MethodsInit ==
    /\ mpc = "start"
    /\ clock \in StartTimes
    /\ polygonKey \in BOOLEAN
    /\ raw = NoBlob
    /\ leapsData = NoData
    /\ chain = None
    /\ LadderIdle /\ PricerIdle /\ ServiceIdle /\ ExtIdle

ProcessOptionsData ==
    /\ mpc = "start"
    /\ \E r \in (IF polygonKey THEN PolygonBlobs(DayCandidates(clock))
                 ELSE YahooBlobs(TimeCandidates(clock))), draws \in DrawSeqs :
          /\ raw' = r
          /\ leapsData' = processOptionsData("AAPL", r, clock, polygonKey, draws)
    /\ mpc' = "processed"
    /\ UNCHANGED <<chain, clock, polygonKey, ladderVars, pricerVars, serviceVars, extVars>>

GenerateMockLeapsData ==
    /\ mpc = "start"
    /\ \E draws \in DrawSeqs :
          leapsData' = generateMockLeapsData("AAPL", clock, draws)
    /\ mpc' = "mocked"
    /\ UNCHANGED <<raw, chain, clock, polygonKey, ladderVars, pricerVars, serviceVars, extVars>>

\* expirations handed to generateLeapsChain: past, present and future
DirectExpirations(now) ==
    {now - Days(1), now - 1, now, now + 1, now + Days(1), now + Days(271)}

GenerateLeapsChain ==
    /\ mpc = "start"
    /\ \E e \in DirectExpirations(clock), q \in QuotePrices \cup {NoQuote},
          p \in FallbackPrices, r \in ChainRnds :
          /\ raw' = [kind |-> "other", dates |-> <<>>, quote |-> q]
          /\ chain' = generateLeapsChain(e, raw', clock, [price |-> p, rnd |-> r])
    /\ mpc' = "chained"
    /\ UNCHANGED <<leapsData, clock, polygonKey, ladderVars, pricerVars, serviceVars, extVars>>

MethodsNext == ProcessOptionsData \/ GenerateMockLeapsData \/ GenerateLeapsChain

SpecChains == MethodsInit /\ [][MethodsNext]_vars

-----------------------------------------------------------------------------
(* getLeapsChains: the cache and the invocations. *)

CacheWindow == 600000 \div 1000
TickStep == CacheWindow \div 2
MaxTicks == 2
ServiceCalls == {1, 2}

\* `leaps_${ticker}_${Date.now() - (Date.now() % 600000)}`
CacheKey(ticker, now) == <<ticker, now - (now % CacheWindow)>>

IdleCall == [pc |-> "idle", ticker |-> "", cacheKey |-> <<>>,
             optionsData |-> NoBlob, result |-> NoData]

ServiceStarts == {DateOf(BaseYear, 0, 1), DateOf(BaseYear, 6, 4) + 45296}

\* what the upstream may answer
ServiceCandidates(now) ==
    LET t == LeapsThreshold(now)
    IN  IF polygonKey THEN {IsoDate(t) + 40, IsoDate(t) + 400}
        ELSE {t + Days(40), t + Days(400)}

ServiceLists(now) == { Descending(D) : D \in SUBSET ServiceCandidates(now) }

ServiceBlobs(now) ==
    IF polygonKey
    THEN [kind : {"contracts"}, dates : ServiceLists(now), quote : {NoQuote}]
    ELSE [kind : {"dateKeyed"}, dates : ServiceLists(now), quote : QuotePrices \cup {NoQuote}]
         \cup [kind : {"other"}, dates : {<<>>}, quote : QuotePrices]
         \cup {Undefined}

\* the draws of a call: its chains priced from one fallback price, or from two
ServiceDraws == { d \in DrawSeqs : d[1].price = 50 * CentsPerDollar }

ServiceInit ==
    /\ clock \in ServiceStarts
    /\ polygonKey \in BOOLEAN
    /\ cache = <<>>
    /\ calls = [c \in ServiceCalls |-> IdleCall]
    /\ ticks = 0
    /\ LadderIdle /\ PricerIdle /\ MethodsIdle /\ ExtIdle

\* getLeapsChains(ticker): the cache holds the key
CallCached(c, t) ==
    /\ calls[c].pc = "idle"
    /\ CacheKey(t, clock) \in DOMAIN cache
    /\ calls' = [calls EXCEPT ![c] = [pc |-> "done", ticker |-> t,
                                      cacheKey |-> CacheKey(t, clock),
                                      optionsData |-> NoBlob,
                                      result |-> cache[CacheKey(t, clock)]]]
    /\ UNCHANGED <<cache, ticks, clock, polygonKey, ladderVars, pricerVars, methodVars, extVars>>

\* getLeapsChains(ticker): a miss; the call awaits the upstream
CallFetches(c, t) ==
    /\ calls[c].pc = "idle"
    /\ CacheKey(t, clock) \notin DOMAIN cache
    /\ calls' = [calls EXCEPT ![c] = [pc |-> "fetching", ticker |-> t,
                                      cacheKey |-> CacheKey(t, clock),
                                      optionsData |-> NoBlob, result |-> NoData]]
    /\ UNCHANGED <<cache, ticks, clock, polygonKey, ladderVars, pricerVars, methodVars, extVars>>

\* this.cache.set(cacheKey, leapsData)
CacheSet(key, value) ==
    [k \in DOMAIN cache \cup {key} |-> IF k = key THEN value ELSE cache[k]]

\* the upstream answers and processOptionsData accepts the blob
FetchReturns(c) ==
    /\ calls[c].pc = "fetching"
    /\ \E r \in ServiceBlobs(clock) \ {Undefined}, draws \in ServiceDraws :
          LET leaps == processOptionsData(calls[c].ticker, r, clock, polygonKey, draws)
          IN  /\ cache' = CacheSet(calls[c].cacheKey, leaps)
              /\ calls' = [calls EXCEPT ![c].pc = "done", ![c].optionsData = r,
                                        ![c].result = leaps]
    /\ UNCHANGED <<ticks, clock, polygonKey, ladderVars, pricerVars, methodVars, extVars>>

\* the catch block: the fetch threw, or the upstream answered with no blob
\* (Yahoo's result[0] of an empty result) and processOptionsData threw
FetchFails(c) ==
    /\ calls[c].pc = "fetching"
    /\ \E r \in {NoBlob} \cup (ServiceBlobs(clock) \cap {Undefined}), draws \in ServiceDraws :
          calls' = [calls EXCEPT ![c].pc = "done", ![c].optionsData = r,
                       ![c].result = generateMockLeapsData(calls[c].ticker, clock, draws)]
    /\ UNCHANGED <<cache, ticks, clock, polygonKey, ladderVars, pricerVars, methodVars, extVars>>

Tick ==
    /\ ticks < MaxTicks
    /\ clock' = clock + TickStep
    /\ ticks' = ticks + 1
    /\ UNCHANGED <<cache, calls, polygonKey, ladderVars, pricerVars, methodVars, extVars>>

Next ==
    \/ \E c \in ServiceCalls, t \in Tickers : CallCached(c, t)
    \/ \E c \in ServiceCalls, t \in Tickers : CallFetches(c, t)
    \/ \E c \in ServiceCalls : FetchReturns(c)
    \/ \E c \in ServiceCalls : FetchFails(c)
    \/ Tick

Spec == ServiceInit /\ [][Next]_vars

-----------------------------------------------------------------------------
(* Properties of the strike ladder (SpecLadder). *)

LadderBuilt == lpc \in {"ladder", "atm"}

\* the tier interval the ladder is documented to use, in cents
TierInterval(spot) ==
    IF spot < 2500 THEN 250
    ELSE IF spot < 5000 THEN 500
    ELSE IF spot < 20000 THEN 1000
    ELSE IF spot < 50000 THEN 2500
    ELSE 5000

\* C1: for every spot > 0 the ladder has at most 30 strikes, every strike is
\* positive, and consecutive strikes rise by exactly the tier interval of the
\* spot (2.5 below 25, 5 below 50, 10 below 200, 25 below 500, 50 otherwise).
C1_LadderShape ==
    LadderBuilt =>
        /\ Len(strikes) <= 30
        /\ \A i \in 1..Len(strikes) : strikes[i] > 0
        /\ \A i \in 1..(Len(strikes) - 1) :
              strikes[i + 1] - strikes[i] = TierInterval(currentPrice)

\* the 30-strike cap has cut strikes off a ladder
C1_Witness ==
    /\ lpc = "ladder"
    /\ Len(strikes) = 30
    /\ strikes[30] < LadderEnd(currentPrice, TierInterval(currentPrice))

\* C2: the ladder spans 50%-200% of spot: it starts at the first positive
\* multiple of the interval at or above floor(0.5 * spot / interval) * interval
\* and its largest strike is at least 2 * spot.
C2_SpansRange ==
    LadderBuilt =>
        LET interval == TierInterval(currentPrice)
            low == (currentPrice \div (2 * interval)) * interval
        IN  /\ strikes # <<>>
            /\ strikes[1] = (IF low > 0 THEN low ELSE interval)
            /\ strikes[Len(strikes)] >= 2 * currentPrice

Dist(a, b) == Abs(a - b)

\* C3: findAtmStrike returns a strike of the ladder at minimal distance from
\* the spot, and of two equally close strikes the lower one.
C3_AtmIsNearest ==
    lpc = "atm" =>
        /\ \E i \in 1..Len(strikes) : strikes[i] = atmStrike
        /\ \A i \in 1..Len(strikes) :
              /\ Dist(atmStrike, atmSpot) <= Dist(strikes[i], atmSpot)
              /\ Dist(strikes[i], atmSpot) = Dist(atmStrike, atmSpot)
                    => atmStrike <= strikes[i]

\* a tie: another strike is exactly as close to the spot as the one returned
C3_Witness ==
    /\ lpc = "atm"
    /\ \E i \in 1..Len(strikes) :
          /\ strikes[i] # atmStrike
          /\ Dist(strikes[i], atmSpot) = Dist(atmStrike, atmSpot)

-----------------------------------------------------------------------------
(* Properties of the pricer (SpecPricer). *)

\* C8: for spot > 0, strike > 0, daysToExpiry >= 1 and every spread fraction,
\* bid <= midPrice <= ask and bid >= 0.05.
C8_BidMidAsk ==
    ppc = "priced" =>
        /\ quote.bid <= quote.midPrice
        /\ quote.midPrice <= quote.ask
        /\ quote.bid >= 5 * (One \div 100)

\* C9: midPrice = intrinsicValue + timeValue, with intrinsicValue
\* max(spot - strike, 0) for a call and max(strike - spot, 0) for a put.
C9_MidIsIntrinsicPlusTime ==
    ppc = "priced" =>
        /\ quote.midPrice = quote.intrinsicValue + quote.timeValue
        /\ args.type = "call" =>
              quote.intrinsicValue = Max(args.spotPrice - args.strike, 0) * MicroPerCent
        /\ args.type = "put" =>
              quote.intrinsicValue = Max(args.strike - args.spotPrice, 0) * MicroPerCent

\* an in-the-money put with a time value that is not zero
C9_Witness ==
    /\ ppc = "priced"
    /\ args.type = "put"
    /\ quote.intrinsicValue > 0
    /\ quote.timeValue > 0

\* C10: calculateDelta returns a value in [0, 1] for a call and in [-1, 0]
\* for a put, the put's being the call's delta minus 1.
C10_DeltaRange ==
    ppc = "delta" =>
        /\ args.type = "call" => 0 <= deltaRet /\ deltaRet <= One
        /\ args.type = "put" =>
              /\ 0 - One <= deltaRet /\ deltaRet <= 0
              /\ deltaRet = calculateDelta("call", ArgMoneyness, ArgTimeToExpiry,
                                           ArgVolatility) - One

\* a put delta strictly inside the range
C10_Witness ==
    /\ ppc = "delta"
    /\ args.type = "put"
    /\ 0 - One < deltaRet
    /\ deltaRet < 0

-----------------------------------------------------------------------------
(* Properties of the chain builders (SpecChains). *)

ChainSetBuilt == mpc \in {"processed", "mocked"}

\* the upstream entries that lie after the threshold
Qualifying ==
    { i \in 1..Len(raw.dates) :
        /\ raw.dates[i] # Invalid
        /\ (IF raw.kind = "contracts" THEN raw.dates[i] * SecondsPerDay ELSE raw.dates[i])
              > clock + 270 * SecondsPerDay }

\* C4: whatever the upstream shape, and for the mock schedule, a chain set holds
\* at most 4 expirations and every one is strictly later than now + 270 days.
C4_AtMostFourLeaps ==
    ChainSetBuilt =>
        /\ Len(leapsData.chains) <= 4
        /\ leapsData.totalExpirations = Len(leapsData.chains)
        /\ \A i \in 1..Len(leapsData.chains) :
              leapsData.chains[i].expirationTime
                 > leapsData.currentDate + 270 * SecondsPerDay

\* more than four upstream dates qualify and four chains are returned
C4_Witness ==
    /\ mpc = "processed"
    /\ Cardinality(Qualifying) > 4
    /\ Len(leapsData.chains) = 4

StrictlyAscending(chains) ==
    \A i \in 1..(Len(chains) - 1) : chains[i].expiration < chains[i + 1].expiration

\* C5 as stated: the chains of every chain set are in strictly ascending order
\* of expiration date.
C5_StrictlyAscending == ChainSetBuilt => StrictlyAscending(leapsData.chains)

\* no two qualifying upstream times fall on the same day
DistinctDays ==
    \A i, j \in Qualifying :
        i # j => IsoDate(raw.dates[i]) # IsoDate(raw.dates[j])

\* C5 amended: the chains are in ascending order of expiration date; strictly
\* so for provenance polygon and mock, and for yahoo when the qualifying
\* upstream times fall on distinct days.
C5_Ascending ==
    ChainSetBuilt =>
        /\ \A i \in 1..(Len(leapsData.chains) - 1) :
              leapsData.chains[i].expiration <= leapsData.chains[i + 1].expiration
        /\ leapsData.dataSource \in {"polygon", "mock"}
              => StrictlyAscending(leapsData.chains)
        /\ (leapsData.dataSource = "yahoo" /\ DistinctDays)
              => StrictlyAscending(leapsData.chains)

\* a yahoo chain set with two chains of the same expiration date
C5_Witness ==
    /\ mpc = "processed"
    /\ leapsData.dataSource = "yahoo"
    /\ Len(leapsData.chains) >= 2
    /\ leapsData.chains[1].expiration = leapsData.chains[2].expiration

\* C7: generateLeapsChain never returns a chain whose daysToExpiry is below 1.
C7_RejectsExpired == mpc = "chained" => chain.daysToExpiry >= 1

-----------------------------------------------------------------------------
(* Properties of getLeapsChains (Spec). *)

\* C6: when the upstream blob has neither supported shape, or yields no
\* expiration beyond the threshold, the call returns the mock schedule's chains
\* with provenance mock, not a result without chains.
C6_FallsBackToMock ==
    \A c \in ServiceCalls :
        ( /\ calls[c].pc = "done"
          /\ calls[c].optionsData.kind \in {"dateKeyed", "contracts", "other", "undefined"}
          /\ Len(leapsExpirationsOf(calls[c].optionsData, calls[c].result.currentDate)) = 0 )
        => /\ calls[c].result.dataSource = "mock"
           /\ Len(calls[c].result.chains) > 0

-----------------------------------------------------------------------------
(* More properties of the pricer (SpecPricer). *)

\* C11: the moneyness label agrees with the sign of spot - strike for the
\* option's type: a call is OTM only when strike > spot and ITM only when
\* strike < 0.95 * spot; a put's labelling is the inverse, so a put with
\* strike > spot (positive intrinsic value) is not labelled OTM and a put is
\* labelled ITM only when strike > spot.
C11_LabelMatchesType ==
    ppc = "priced" =>
        /\ args.type = "call" =>
              /\ quote.moneyness = "OTM" => args.strike > args.spotPrice
              /\ quote.moneyness = "ITM" => 100 * args.strike < 95 * args.spotPrice
        /\ args.type = "put" =>
              /\ args.strike > args.spotPrice => quote.moneyness # "OTM"
              /\ quote.moneyness = "ITM" => args.strike > args.spotPrice

-----------------------------------------------------------------------------
(* LeapsAnalyzer (src/unnamed/part_001).  Strikes, option prices and the    *)
(* stock's close are in cents, deltas in millionths, percentages of the     *)
(* stock record in whole percent, expectedReturn in hundredths of a percent. *)
(* A strategy's return value keeps the fields the recommendations are       *)
(* selected and ordered by and the legs of its setup; its descriptive texts, *)
(* probability and time decay are left out.                                  *)

Strategies == <<"stock_replacement", "pmcc", "growth", "value", "protective_put",
                "diagonal_spread">>

\* a / b as a percentage, in hundredths of a percent
PercentOf(a, b) == (a \div b) * 10000 + ((a % b) * 10000) \div b

\* Array.prototype.find: the index of the first element that passes, or 0
FindFirst(options, Test(_)) ==
    LET hits == { i \in 1..Len(options) : Test(options[i]) }
    IN  IF hits = {} THEN 0 ELSE CHOOSE i \in hits : \A j \in hits : i <= j

\* a TypeError: a property read of undefined
Threw == [NoReturn EXCEPT !.threw = TRUE, !.reason = "TypeError"]
Rejected(reason) == [NoReturn EXCEPT !.reason = reason]
\* a strategy with one leg
OneLeg(viable, expectedReturn, strike, expiration) ==
    [NoReturn EXCEPT !.viable = viable, !.hasReturn = TRUE,
                     !.expectedReturn = expectedReturn,
                     !.strike = strike, !.expiration = expiration]

Delta(hundredths) == hundredths * (One \div 100)

\* leverage >= 3, leverage being spot / callOption.midPrice
LeverageFloorStrict(spot, midPrice) == spot >= 4 * midPrice

LeverageFloor(spot, midPrice) == spot >= 3 * midPrice

analyzeStockReplacement(stock, od) ==
    IF od.chains = <<>> THEN Threw
    ELSE
    LET spot == stock.close
        longestChain == od.chains[Len(od.chains)]
        IsDeepItm(opt) == /\ opt.call.delta >= Delta(70) /\ opt.call.delta <= Delta(80)
                          /\ opt.strike < spot
        i == FindFirst(longestChain.options, IsDeepItm)
    IN  IF i = 0 THEN Rejected("No suitable deep ITM calls found")
        ELSE LET deepItmCall == longestChain.options[i]
                 callOption == deepItmCall.call
                 capitalSavings == spot - callOption.midPrice
                 roi == PercentOf(capitalSavings, callOption.midPrice)
             IN  OneLeg(LeverageFloor(spot, callOption.midPrice)
                           /\ callOption.delta >= Delta(70),
                        roi, deepItmCall.strike, longestChain.expiration)

analyzePoorMansCoveredCall(stock, od) ==
    IF od.chains = <<>> THEN Threw
    ELSE
    LET spot == stock.close
        longChain == od.chains[Len(od.chains)]
        shortChain == od.chains[1]
        IsLong(opt) == opt.call.delta >= Delta(70) /\ opt.strike < spot
        IsShort(opt) == /\ opt.call.delta >= Delta(25) /\ opt.call.delta <= Delta(35)
                        /\ opt.strike > spot
        l == FindFirst(longChain.options, IsLong)
        s == FindFirst(shortChain.options, IsShort)
    IN  IF l = 0 \/ s = 0 THEN Rejected("Unable to find suitable call spread")
        ELSE LET longCall == longChain.options[l]
                 shortCall == shortChain.options[s]
                 netDebit == longCall.call.midPrice - shortCall.call.midPrice
                 maxProfit == (shortCall.strike - longCall.strike) - netDebit
                 \* roi > 15, roi being maxProfit / netDebit * 100
                 viable == netDebit > 0 /\ maxProfit > 0 /\ 100 * maxProfit > 15 * netDebit
             IN  [NoReturn EXCEPT
                    !.viable = viable, !.hasReturn = TRUE,
                    !.expectedReturn = IF netDebit > 0 THEN PercentOf(maxProfit, netDebit)
                                       ELSE 0,
                    !.strike = longCall.strike, !.expiration = longChain.expiration,
                    !.shortStrike = shortCall.strike,
                    !.shortExpiration = shortChain.expiration]

analyzeGrowthLeaps(stock, od) ==
    IF stock.total_revenue_yoy_growth_ttm < 15 \/ stock.price_target_1y_delta < 20
    THEN Rejected("Insufficient growth metrics")
    ELSE IF od.chains = <<>> THEN Threw
    ELSE
    LET spot == stock.close
        chain_ == IF Len(od.chains) >= 2 THEN od.chains[2] ELSE od.chains[1]
        IsGrowth(opt) == /\ opt.call.delta >= Delta(40) /\ opt.call.delta <= Delta(60)
                         /\ opt.strike >= spot
        i == FindFirst(chain_.options, IsGrowth)
    IN  IF i = 0 THEN Rejected("No suitable OTM calls found")
        ELSE LET growthCall == chain_.options[i]
                 \* a hundred times the profit at the target price
                 profitAtTarget == Max(spot * (100 + stock.price_target_1y_delta)
                                         - 100 * growthCall.strike
                                         - 100 * growthCall.call.midPrice, 0)
                 roi == PercentOf(profitAtTarget, growthCall.call.midPrice) \div 100
                 viable == /\ profitAtTarget > 50 * growthCall.call.midPrice
                           /\ growthCall.call.midPrice > 2 * CentsPerDollar
             IN  \* stockData.beta_1_year.toFixed(2) of growthDrivers
                 IF stock.beta_1_year = NoValue THEN Threw
                 ELSE OneLeg(viable, roi, growthCall.strike, chain_.expiration)

\* price_earnings_ttm > 20 || return_on_equity < 12
FailsValueCriteriaBoth(stock) ==
    stock.price_earnings_ttm > 20 /\ stock.return_on_equity < 12

FailsValueCriteria(stock) ==
    stock.price_earnings_ttm > 20 \/ stock.return_on_equity < 12

analyzeValueLeaps(stock, od) ==
    IF FailsValueCriteria(stock) THEN Rejected("Does not meet value criteria")
    ELSE IF od.chains = <<>> THEN Threw
    ELSE
    LET spot == stock.close
        chain_ == od.chains[Len(od.chains)]
        IsValue(opt) == /\ opt.call.delta >= Delta(60) /\ opt.call.delta <= Delta(70)
                        /\ opt.strike < spot
        i == FindFirst(chain_.options, IsValue)
    IN  IF i = 0 THEN Rejected("No suitable ITM value calls found")
        ELSE LET valueCall == chain_.options[i]
                 intrinsicValue == Max(spot - valueCall.strike, 0)
                 timeValue == valueCall.call.midPrice - intrinsicValue
             IN  OneLeg(timeValue < intrinsicValue /\ stock.price_target_1y_delta > 10,
                        stock.price_target_1y_delta * 100,
                        valueCall.strike, chain_.expiration)

analyzeProtectivePut(stock, od) ==
    IF od.chains = <<>> THEN Threw
    ELSE
    LET spot == stock.close
        chain_ == od.chains[1]
        IsProtective(opt) == /\ opt.put.delta <= 0 - Delta(10)
                             /\ opt.put.delta >= 0 - Delta(20)
                             /\ 10 * opt.strike < 9 * spot
        i == FindFirst(chain_.options, IsProtective)
    IN  IF i = 0 THEN Rejected("No suitable protective puts available")
        ELSE LET protectivePut == chain_.options[i]
                 \* insuranceCost < 8 && protection > 10, both percentages of spot
                 viable == /\ 100 * protectivePut.put.midPrice < 8 * spot
                           /\ 100 * (spot - protectivePut.strike) > 10 * spot
             IN  \* the return value has no expectedReturn
                 [NoReturn EXCEPT !.viable = viable, !.strike = protectivePut.strike,
                                  !.expiration = chain_.expiration]

analyzeDiagonalSpread(stock, od) == Rejected("Strategy under development")

\* this.strategies[strategyName](stockData, optionsData)
Analyzer(strategyName, stock, od) ==
    LET r == CASE strategyName = "stock_replacement" -> analyzeStockReplacement(stock, od)
               [] strategyName = "pmcc" -> analyzePoorMansCoveredCall(stock, od)
               [] strategyName = "growth" -> analyzeGrowthLeaps(stock, od)
               [] strategyName = "value" -> analyzeValueLeaps(stock, od)
               [] strategyName = "protective_put" -> analyzeProtectivePut(stock, od)
               [] OTHER -> analyzeDiagonalSpread(stock, od)
    IN  [r EXCEPT !.strategy = strategyName]

\* the try around the loop instead of in it
CaughtOutsideLoop(outcome) == FALSE

\* try { ... } catch (error) { console.error(...) } in the body of the loop
CaughtInLoop(outcome) == TRUE

\* for (const [strategyName, analyzer] of Object.entries(this.strategies))
RECURSIVE StrategyLoop(_, _, _)
StrategyLoop(i, stock, od) ==
    IF i > Len(Strategies) THEN <<>>
    ELSE LET outcome == Analyzer(Strategies[i], stock, od)
         IN  <<outcome>> \o (IF outcome.threw /\ ~CaughtInLoop(outcome) THEN <<>>
                             ELSE StrategyLoop(i + 1, stock, od))

\* (a, b) => b.expectedReturn - a.expectedReturn; NaN counts as +0
CompareReturns(a, b) ==
    IF a.hasReturn /\ b.hasReturn THEN b.expectedReturn - a.expectedReturn ELSE 0

RECURSIVE InsertRecommendation(_, _)
InsertRecommendation(x, s) ==
    IF s = <<>> THEN <<x>>
    ELSE IF CompareReturns(s[Len(s)], x) > 0
         THEN InsertRecommendation(x, SubSeq(s, 1, Len(s) - 1)) \o <<s[Len(s)]>>
         ELSE s \o <<x>>

\* recommendations.sort(...): a stable sort
RECURSIVE SortRecommendations(_)
SortRecommendations(s) ==
    IF s = <<>> THEN <<>>
    ELSE InsertRecommendation(s[Len(s)], SortRecommendations(SubSeq(s, 1, Len(s) - 1)))

MaxRecommendations == 3


\* recommendations.slice(0, 3)
TopRecommendations(s) == Take(s, MaxRecommendations)

IsViable(outcome) == ~outcome.threw /\ outcome.viable

analyzeStock(stock, od) ==
    IF ~od.leapsAvailable \/ od.chains = <<>> THEN NoAnalysis
    ELSE LET recommendations == SelectSeq(StrategyLoop(1, stock, od), IsViable)
         IN  [leapsAvailable |-> TRUE,
              totalRecommendations |-> Len(recommendations),
              recommendations |-> TopRecommendations(SortRecommendations(recommendations))]

-----------------------------------------------------------------------------
(* Calls of LeapsAnalyzer: analyzeStock, and each strategy on its own. *)

Dollars(n) == n * CentsPerDollar

Option(strike, callDelta, callMid, putDelta, putMid) ==
    [strike |-> Dollars(strike),
     call |-> [delta |-> Delta(callDelta), midPrice |-> Dollars(callMid)],
     put |-> [delta |-> IF putDelta < 0 THEN 0 - Delta(0 - putDelta) ELSE Delta(putDelta),
              midPrice |-> Dollars(putMid)]]

\* option chains in ascending strike order; put deltas signed as
\* analyzeProtectivePut reads them, or absolute as generateOptionData reports them
SignedPuts ==
    <<Option(150, 75, 55, 0 - 15, 5), Option(160, 65, 50, 0 - 22, 7),
      Option(200, 50, 20, 0 - 50, 18), Option(220, 30, 15, 0 - 70, 32)>>
AbsolutePuts ==
    <<Option(150, 75, 55, 15, 5), Option(160, 65, 50, 22, 7),
      Option(200, 50, 20, 50, 18), Option(220, 30, 15, 70, 32)>>
OptionLists ==
    { <<>>,
      SignedPuts,
      AbsolutePuts,
      <<Option(120, 78, 85, 0 - 5, 1)>> \o SignedPuts,
      SubSeq(AbsolutePuts, 3, 4) }

NearDays == 365 + 35
FarDays == 2 * 365 + 35
ExpirationPairs == { <<NearDays, FarDays>>, <<NearDays, NearDays>> }

AnalyzerChain(options, days) ==
    [expiration |-> days, daysToExpiry |-> days, options |-> options]

\* chain sets of no, one or two chains, the two with different or with the
\* same expiration date
ChainSets ==
    { <<>> }
    \cup { <<AnalyzerChain(o, NearDays)>> : o \in OptionLists }
    \cup { <<AnalyzerChain(o1, e[1]), AnalyzerChain(o2, e[2])>> :
             o1 \in OptionLists, o2 \in OptionLists, e \in ExpirationPairs }

AnalyzerOptions == { [leapsAvailable |-> c # <<>>, chains |-> c] : c \in ChainSets }

AnalyzerStocks ==
    [ticker : {"AAPL"},
     close : {Dollars(200), Dollars(100)},
     total_revenue_yoy_growth_ttm : {10, 30},
     price_target_1y_delta : {5, 25},
     price_earnings_ttm : {15, 25},
     return_on_equity : {10, 15},
     beta_1_year : {NoValue, 12 * (One \div 10)}]

AnalyzerInit ==
    /\ apc = "start"
    /\ stockData \in AnalyzerStocks
    /\ optionsData \in AnalyzerOptions
    /\ evaluated = <<>>
    /\ analysis = NoAnalysis
    /\ strategyRet = NoReturn
    /\ LadderIdle /\ PricerIdle /\ MethodsIdle /\ ServiceIdle /\ ClockIdle
    /\ ScreenIdle /\ StockIdle /\ AuxIdle

AnalyzeStock ==
    /\ apc = "start"
    /\ evaluated' = IF ~optionsData.leapsAvailable \/ optionsData.chains = <<>> THEN <<>>
                    ELSE StrategyLoop(1, stockData, optionsData)
    /\ analysis' = analyzeStock(stockData, optionsData)
    /\ apc' = "analyzed"
    /\ UNCHANGED <<stockData, optionsData, strategyRet, coreVars, screenVars, stockVars, auxVars>>

Direct(strategyName) ==
    /\ apc = "start"
    /\ strategyRet' = Analyzer(strategyName, stockData, optionsData)
    /\ apc' = "returned"
    /\ UNCHANGED <<stockData, optionsData, evaluated, analysis, coreVars, screenVars,
                   stockVars, auxVars>>

AnalyzeStockReplacement == Direct("stock_replacement")
AnalyzePoorMansCoveredCall == Direct("pmcc")
AnalyzeGrowthLeaps == Direct("growth")
AnalyzeValueLeaps == Direct("value")
AnalyzeProtectivePut == Direct("protective_put")
AnalyzeDiagonalSpread == Direct("diagonal_spread")

AnalyzerNext ==
    \/ AnalyzeStock
    \/ AnalyzeStockReplacement
    \/ AnalyzePoorMansCoveredCall
    \/ AnalyzeGrowthLeaps
    \/ AnalyzeValueLeaps
    \/ AnalyzeProtectivePut
    \/ AnalyzeDiagonalSpread

SpecAnalyzer == AnalyzerInit /\ [][AnalyzerNext]_vars

-----------------------------------------------------------------------------
(* Properties of LeapsAnalyzer (SpecAnalyzer). *)

Analyzed == apc = "analyzed" /\ analysis.leapsAvailable
Returned(strategyName) == apc = "returned" /\ strategyRet.strategy = strategyName

ViableOutcomes == { i \in 1..Len(evaluated) : IsViable(evaluated[i]) }
ReturnedStrategies ==
    { analysis.recommendations[i].strategy : i \in 1..Len(analysis.recommendations) }

\* C12: analyzeStock returns at most 3 recommendations; they are the viable
\* strategies with the highest expectedReturn, each with an expectedReturn, in
\* non-increasing order of it, and no omitted viable strategy has a higher
\* expectedReturn than a returned one.
C12_TopThreeByReturn ==
    Analyzed =>
        LET recs == analysis.recommendations
        IN  /\ Len(recs) <= 3
            /\ \A i \in 1..Len(recs) : recs[i].hasReturn
            /\ \A i \in 1..(Len(recs) - 1) :
                  recs[i].expectedReturn >= recs[i + 1].expectedReturn
            /\ \A k \in ViableOutcomes :
                  evaluated[k].strategy \notin ReturnedStrategies =>
                      \A i \in 1..Len(recs) :
                          /\ evaluated[k].hasReturn
                          /\ evaluated[k].expectedReturn <= recs[i].expectedReturn

\* C14: analyzeValueLeaps returns viable:false without inspecting the chain
\* whenever the trailing P/E is above 20 or the return on equity is below 12,
\* for every chain set, an empty one included.
C14_ValueGateShortCircuits ==
    (Returned("value")
       /\ (stockData.price_earnings_ttm > 20 \/ stockData.return_on_equity < 12))
    => /\ ~strategyRet.threw
       /\ ~strategyRet.viable
       /\ strategyRet.reason = "Does not meet value criteria"

\* the return on equity alone fails the criteria and there is no chain to read
C14_Witness ==
    /\ Returned("value")
    /\ stockData.price_earnings_ttm <= 20
    /\ stockData.return_on_equity < 12
    /\ optionsData.chains = <<>>
    /\ ~strategyRet.viable

\* the calls of the longest-dated chain with delta in [0.70, 0.80] and a
\* strike below spot
DeepItmCalls ==
    LET options == optionsData.chains[Len(optionsData.chains)].options
    IN  { i \in 1..Len(options) :
            /\ options[i].call.delta >= 700000 /\ options[i].call.delta <= 800000
            /\ options[i].strike < stockData.close }
LongestOptions == optionsData.chains[Len(optionsData.chains)].options

\* C15 as stated: analyzeStockReplacement returns viable:true whenever the
\* longest-dated chain contains a call with delta in [0.70, 0.80], strike below
\* spot and leverage spot / midPrice >= 3, whatever else the chain contains.
C15_AnyDeepItmCall ==
    (Returned("stock_replacement") /\ optionsData.chains # <<>>
       /\ \E i \in DeepItmCalls :
             stockData.close >= 3 * LongestOptions[i].call.midPrice)
    => strategyRet.viable

\* C15 amended: analyzeStockReplacement returns viable:true exactly when the
\* first call, in chain order, of the longest-dated chain with delta in
\* [0.70, 0.80] and strike below spot has leverage spot / midPrice >= 3; that
\* call is the one of the setup.
C15_FirstDeepItmCall ==
    (Returned("stock_replacement") /\ optionsData.chains # <<>>)
    => /\ ~strategyRet.threw
       /\ DeepItmCalls = {} => ~strategyRet.viable
       /\ \A i \in DeepItmCalls :
             (\A j \in DeepItmCalls : i <= j) =>
                 /\ strategyRet.viable
                       <=> stockData.close >= 3 * LongestOptions[i].call.midPrice
                 /\ strategyRet.strike = LongestOptions[i].strike

\* spot 200 and the call of strike 150, delta 0.75 and mid 55 found first
C15_Witness ==
    /\ Returned("stock_replacement")
    /\ stockData.close = 20000
    /\ strategyRet.viable
    /\ strategyRet.strike = 15000
    /\ \E i \in DeepItmCalls :
          /\ LongestOptions[i].strike = 15000
          /\ LongestOptions[i].call.delta = 750000
          /\ LongestOptions[i].call.midPrice = 5500

\* C16: in every viable PMCC the short leg expires strictly before the long
\* leg, the long strike is below spot and the short strike is above spot.
C16_PmccIsDiagonal ==
    (Returned("pmcc") /\ strategyRet.viable)
    => /\ strategyRet.shortExpiration < strategyRet.expiration
       /\ strategyRet.strike < stockData.close
       /\ strategyRet.shortStrike > stockData.close

\* C17: in analyzeStock every strategy is invoked, in order, whether or not an
\* earlier one threw, and every strategy that evaluates as viable is counted
\* and, when at most three are viable, returned.
C17_FailuresAreIsolated ==
    (apc = "analyzed" /\ optionsData.leapsAvailable /\ optionsData.chains # <<>>)
    => /\ Len(evaluated) = 6
       /\ \A i \in 1..Len(evaluated) :
             evaluated[i] = Analyzer(Strategies[i], stockData, optionsData)
       /\ LET viable == { i \in 1..6 :
                            IsViable(Analyzer(Strategies[i], stockData, optionsData)) }
          IN  /\ analysis.totalRecommendations = Cardinality(viable)
              /\ Cardinality(viable) <= 3 =>
                    \A i \in viable : Strategies[i] \in ReturnedStrategies

\* growth threw and value, evaluated after it, is among the recommendations
C17_Witness ==
    /\ Analyzed
    /\ Len(evaluated) = 6
    /\ evaluated[3].threw
    /\ IsViable(evaluated[4])
    /\ "value" \in ReturnedStrategies

-----------------------------------------------------------------------------
(* The screener API (src/api/screener.js) and the page's screener           *)
(* (src/index/js/screener.js).  Market capitalisation is in tenths of a     *)
(* billion, volume in tenths of a million, beta, debt to equity and the     *)
(* analyst mark in tenths, P/E, ROE, growth, upside and RSI in whole units, *)
(* the close in cents.                                                      *)

\* a field the caller did not supply (undefined)
Absent == 0 - 1000 * 1000

\* value || fallback: undefined and 0 are falsy
OrDefault(value, fallback) == IF value = Absent \/ value = 0 THEN fallback ELSE value

\* criteria.<field> || <default>
Defaulted(value, fallback) == OrDefault(value, fallback)

\* the handler's screeningCriteria
HandlerCriteria(c) ==
    [minMarketCap |-> Defaulted(c.minMarketCap, 5),
     minVolume |-> Defaulted(c.minVolume, 5),
     maxPE |-> Defaulted(c.maxPE, 50),
     minROE |-> Defaulted(c.minROE, 5),
     minRevGrowth |-> Defaulted(c.minRevGrowth, 0 - 10),
     minUpside |-> Defaulted(c.minUpside, 5)]

\* the thresholds applyScreeningFilters compares against
FilterCriteria(c) ==
    [minMarketCap |-> Defaulted(c.minMarketCap, 50),
     minVolume |-> Defaulted(c.minVolume, 10),
     maxPE |-> Defaulted(c.maxPE, 50),
     minROE |-> Defaulted(c.minROE, 10),
     minRevGrowth |-> Defaulted(c.minRevGrowth, 5),
     minUpside |-> Defaulted(c.minUpside, 5)]

\* the page's this.screeningCriteria
PageCriteria(c) ==
    [minMarketCap |-> Defaulted(c.minMarketCap, 50),
     minVolume |-> Defaulted(c.minVolume, 10),
     maxPE |-> Defaulted(c.maxPE, 50),
     minROE |-> Defaulted(c.minROE, 10),
     minRevGrowth |-> Defaulted(c.minRevGrowth, 5),
     minUpside |-> Defaulted(c.minUpside, 5)]

\* the comparisons with the caller's thresholds, common to the three filters
PassesThresholds(stock, c) ==
    /\ stock.market_cap_basic >= c.minMarketCap
    /\ stock.volume >= c.minVolume
    /\ stock.price_earnings_ttm > 0
    /\ stock.price_earnings_ttm <= c.maxPE
    /\ stock.return_on_equity >= c.minROE
    /\ stock.total_revenue_yoy_growth_ttm >= c.minRevGrowth
    /\ stock.price_target_1y_delta >= c.minUpside

passesScreening(stock, c) ==
    /\ PassesThresholds(stock, c)
    /\ stock.debt_to_equity <= 30
    /\ stock.earnings_per_share_diluted_yoy_growth_ttm >= 0 - 20
    /\ stock.RSI >= 20 /\ stock.RSI <= 80
    /\ stock.beta_1_year >= 3 /\ stock.beta_1_year <= 30
    /\ stock.recommendation_mark <= 40

\* the predicate of data.filter in applyScreeningFilters
applyScreeningFilters(stock, c) ==
    /\ PassesThresholds(stock, FilterCriteria(c))
    /\ stock.debt_to_equity <= 20
    /\ stock.earnings_per_share_diluted_yoy_growth_ttm >= 0
    /\ stock.RSI >= 30 /\ stock.RSI <= 70
    /\ stock.beta_1_year >= 5 /\ stock.beta_1_year <= 25
    /\ stock.recommendation_mark <= 25

\* the predicate of this.mockData.filter in runLeapsScreener
runLeapsScreener(stock, c) ==
    /\ PassesThresholds(stock, PageCriteria(c))
    /\ stock.debt_to_equity <= 30
    /\ stock.earnings_per_share_diluted_yoy_growth_ttm >= 0 - 10
    /\ stock.RSI >= 20 /\ stock.RSI <= 80
    /\ stock.beta_1_year >= 3 /\ stock.beta_1_year <= 30
    /\ stock.recommendation_mark <= 35

isStockReplacement(stock) ==
    /\ stock.market_cap_basic >= 200
    /\ stock.price_earnings_ttm <= 35
    /\ stock.beta_1_year <= 18
    /\ stock.return_on_equity >= 12

isPMCCCandidate(stock) ==
    /\ stock.close >= 80 * CentsPerDollar
    /\ stock.beta_1_year >= 7 /\ stock.beta_1_year <= 25
    /\ stock.volume >= 10
    /\ stock.price_target_1y_delta >= 8

isGrowthLEAPS(stock) ==
    /\ stock.total_revenue_yoy_growth_ttm >= 10
    /\ stock.earnings_per_share_diluted_yoy_growth_ttm >= 5
    /\ stock.price_target_1y_delta >= 15
    /\ stock.return_on_equity >= 15

FiveDollars == 5 * CentsPerDollar
\* Math.floor(price * percent / 100 / 5) * 5
FloorToFive(price, percent) == ((price * percent) \div (100 * FiveDollars)) * FiveDollars
\* Math.ceil(price * percent / 100 / 5) * 5
CeilToFive(price, percent) ==
    ((price * percent + 100 * FiveDollars - 1) \div (100 * FiveDollars)) * FiveDollars
\* Math.round(price / 5) * 5
RoundToFive(price) == ((2 * price + FiveDollars) \div (2 * FiveDollars)) * FiveDollars

\* breakeven: a hundred times economics.breakeven
ApiRecommendation(strategy, viable, expectedReturn, strike, breakeven) ==
    [strategy |-> strategy, viable |-> viable, expectedReturn |-> expectedReturn,
     strike |-> strike, breakeven |-> breakeven]

\* a / b * 100 of either sign, in hundredths of a percent
SignedPercentOf(a, b) == IF a < 0 THEN 0 - PercentOf(0 - a, b) ELSE PercentOf(a, b)

CallPriceIntrinsicOnly(spot, strike) == 100 * (spot - strike)

\* a hundred times callPrice = (currentPrice - deepItmStrike) + (currentPrice * 0.08)
CallPriceOf(spot, strike) == 100 * (spot - strike) + 8 * spot

\* if (isStockReplacement(stockData)) { ... recommendations.push({...}) }
StockReplacementEntry(stock) ==
    LET deepItmStrike == FloorToFive(stock.close, 85)
        callPrice == CallPriceOf(stock.close, deepItmStrike)
        \* leverage >= 3, leverage being spot / callPrice
        viable == 100 * stock.close >= 3 * callPrice
        breakeven == 100 * deepItmStrike + callPrice
    IN  IF isStockReplacement(stock)
        THEN <<ApiRecommendation("stock_replacement", viable,
                                 SignedPercentOf(100 * stock.close - breakeven, callPrice),
                                 deepItmStrike, breakeven)>>
        ELSE <<>>

\* if (isPMCCCandidate(stockData)) { ... if (maxProfit > 0 && netDebit > 0) push }
PmccEntry(stock) ==
    LET longStrike == FloorToFive(stock.close, 80)
        shortStrike == CeilToFive(stock.close, 110)
        \* a hundred times longPrice - shortPrice
        netDebit == 100 * (stock.close - longStrike) + 12 * stock.close - 4 * stock.close
        maxProfit == 100 * (shortStrike - longStrike) - netDebit
    IN  IF isPMCCCandidate(stock) /\ maxProfit > 0 /\ netDebit > 0
        THEN <<ApiRecommendation("pmcc", TRUE, PercentOf(maxProfit, netDebit), longStrike,
                                 100 * longStrike + netDebit)>>
        ELSE <<>>

\* if (isGrowthLEAPS(stockData)) { ... if (profitAtTarget > callPrice * 0.5) push }
GrowthEntry(stock) ==
    LET atTheMoney == RoundToFive(stock.close)
        \* a hundred times callPrice and profitAtTarget
        callPrice == 15 * stock.close
        profitAtTarget == stock.close * (100 + stock.price_target_1y_delta)
                             - 100 * atTheMoney - callPrice
    IN  IF isGrowthLEAPS(stock) /\ 2 * profitAtTarget > callPrice
        THEN <<ApiRecommendation("growth", TRUE, PercentOf(profitAtTarget, callPrice),
                                 atTheMoney, 100 * atTheMoney + callPrice)>>
        ELSE <<>>

generateLeapsRecommendations(stock) ==
    LET recommendations == StockReplacementEntry(stock) \o PmccEntry(stock)
                              \o GrowthEntry(stock)
    IN  [leapsAvailable |-> Len(recommendations) > 0,
         totalStrategies |-> Len(recommendations),
         recommendations |-> recommendations]

calculateQualityScore(stock, leaps) ==
    (IF stock.dataQuality = "high" THEN 25
     ELSE IF stock.dataQuality = "medium" THEN 15 ELSE 5)
    + Len(leaps.recommendations) * 15
    + (IF stock.return_on_equity > 20 THEN 10 ELSE 0)
    + (IF stock.debt_to_equity < 5 THEN 10 ELSE 0)
    + (IF stock.price_target_1y_delta > 20 THEN 10 ELSE 0)
    + (IF stock.volume > 50 THEN 10 ELSE 0)
    + (IF stock.market_cap_basic > 1000 THEN 10 ELSE 0)
    + (IF stock.price_earnings_ttm < 20 THEN 5 ELSE 0)

-----------------------------------------------------------------------------
(* A request to the screener API with one stock in its universe, and the    *)
(* two other filters applied to the same stock and criteria.                *)

CriteriaFields == {"minMarketCap", "minVolume", "maxPE", "minROE", "minRevGrowth", "minUpside"}

\* what the caller may send: nothing, zero, or a threshold of its own
RequestCriteria ==
    [minMarketCap : {Absent, 0, 100},
     minVolume : {Absent, 0, 20},
     maxPE : {Absent, 0, 30},
     minROE : {Absent, 0, 15},
     minRevGrowth : {Absent, 0, 10},
     minUpside : {Absent, 0, 20}]

Stock(close, cap, volume, pe, roe, growth, upside) ==
    [ticker |-> "AAPL", close |-> Dollars(close), market_cap_basic |-> cap,
     volume |-> volume, price_earnings_ttm |-> pe, return_on_equity |-> roe,
     debt_to_equity |-> 4, total_revenue_yoy_growth_ttm |-> growth,
     earnings_per_share_diluted_yoy_growth_ttm |-> 10, RSI |-> 50, beta_1_year |-> 12,
     recommendation_mark |-> 20, price_target_1y_delta |-> upside,
     dataQuality |-> "high"]

\* a large grower, a shrinking company, a low-priced large company, a small
\* company and one without upside
ScreenStocks ==
    { Stock(200, 5000, 100, 15, 25, 20, 25),
      Stock(150, 800, 60, 40, 3, 0 - 5, 8),
      Stock(10, 450, 300, 12, 15, 2, 10),
      Stock(60, 3, 3, 25, 8, 30, 30),
      Stock(120, 300, 15, 18, 12, 7, 2) }

NoCriteria == [f \in CriteriaFields |-> Absent]
NoLeaps == [leapsAvailable |-> FALSE, totalStrategies |-> 0, recommendations |-> <<>>]

ScreenInit ==
    /\ hpc = "start"
    /\ criteria \in RequestCriteria
    /\ candidate \in ScreenStocks
    /\ screeningCriteria = NoCriteria
    /\ passes = FALSE
    /\ leapsAnalysis = NoLeaps
    /\ qualityScore = 0
    /\ LadderIdle /\ PricerIdle /\ MethodsIdle /\ ServiceIdle /\ ClockIdle
    /\ AnalyzerIdle /\ StockIdle /\ AuxIdle

\* handler(req, res), src/api/screener.js line 25, for one ticker of the universe
Handler ==
    /\ hpc = "start"
    /\ screeningCriteria' = HandlerCriteria(criteria)
    /\ passes' = passesScreening(candidate, screeningCriteria')
    /\ leapsAnalysis' = IF passes' THEN generateLeapsRecommendations(candidate) ELSE NoLeaps
    /\ qualityScore' = IF passes' THEN calculateQualityScore(candidate, leapsAnalysis')
                       ELSE 0
    /\ hpc' = "handled"
    /\ UNCHANGED <<criteria, candidate, coreVars, analyzerVars, stockVars, auxVars>>

\* applyScreeningFilters([stock], criteria), src/api/screener.js line 929
ApplyScreeningFilters ==
    /\ hpc = "start"
    /\ screeningCriteria' = FilterCriteria(criteria)
    /\ passes' = applyScreeningFilters(candidate, criteria)
    /\ hpc' = "filtered"
    /\ UNCHANGED <<criteria, candidate, leapsAnalysis, qualityScore, coreVars,
                   analyzerVars, stockVars, auxVars>>

\* runLeapsScreener(criteria) of the page, with the stock in its mock data
RunLeapsScreener ==
    /\ hpc = "start"
    /\ screeningCriteria' = PageCriteria(criteria)
    /\ passes' = runLeapsScreener(candidate, criteria)
    /\ hpc' = "screened"
    /\ UNCHANGED <<criteria, candidate, leapsAnalysis, qualityScore, coreVars,
                   analyzerVars, stockVars, auxVars>>

\* generateLeapsRecommendations(stockData) on its own
GenerateLeapsRecommendations ==
    /\ hpc = "start"
    /\ leapsAnalysis' = generateLeapsRecommendations(candidate)
    /\ qualityScore' = calculateQualityScore(candidate, leapsAnalysis')
    /\ hpc' = "recommended"
    /\ UNCHANGED <<criteria, candidate, screeningCriteria, passes, coreVars,
                   analyzerVars, stockVars, auxVars>>

ScreenNext ==
    \/ Handler
    \/ ApplyScreeningFilters
    \/ RunLeapsScreener
    \/ GenerateLeapsRecommendations

SpecScreen == ScreenInit /\ [][ScreenNext]_vars

-----------------------------------------------------------------------------
(* Properties of the recommendations lists and of the screening filters. *)

\* C13: every entry of a recommendations list, of LeapsAnalyzer.analyzeStock or
\* of the API's generateLeapsRecommendations, has viable = true, and only such
\* entries are counted (totalRecommendations, totalStrategies and the 15 points
\* an entry adds to the quality score).
C13_ViabilityGatesInclusion ==
    /\ apc = "analyzed" =>
          /\ \A i \in 1..Len(analysis.recommendations) :
                analysis.recommendations[i].viable
          /\ analysis.totalRecommendations = Cardinality(ViableOutcomes)
    /\ hpc \in {"handled", "recommended"} =>
          \A i \in 1..Len(leapsAnalysis.recommendations) :
              leapsAnalysis.recommendations[i].viable

Filtered == hpc \in {"handled", "filtered", "screened"}

\* the threshold a filter should compare against: the caller's, when supplied
Supplied(field) == criteria[field] # Absent

\* C19: every threshold the caller supplies, the value 0 included, is the value
\* the screening filter compares against; a default replaces only a field the
\* caller did not supply.
C19_SuppliedThresholdsAreUsed ==
    Filtered =>
        \A f \in CriteriaFields :
            Supplied(f) => screeningCriteria[f] = criteria[f]

-----------------------------------------------------------------------------
(* MarketDataService.getStockData (src/unnamed/part_002): the three upstream *)
(* fetches awaited with Promise.allSettled, the record built from what they  *)
(* settled with, and the 5-minute cache.  The try block holds no statement   *)
(* that throws once allSettled has resolved, so its catch block, the only    *)
(* caller of generateFallbackData besides the batch's catch, is never        *)
(* entered and has no action here.                                           *)

StockWindow == 300000 \div 1000
StockTickStep == StockWindow \div 2
MaxStockTicks == 2
StockCallIds == {1, 2}

\* `stock_${ticker}_${Date.now() - (Date.now() % 300000)}`
StockCacheKey(ticker, now) == <<ticker, now - (now % StockWindow)>>

\* how a fetch settles: rejected (no API key), fulfilled with {} (network
\* error or error payload, caught inside the fetcher), fulfilled with data
Settlements(hasKey) == IF hasKey THEN {"empty", "data"} ELSE {"rejected"}
\* getTechnicalIndicators returns {} without a key
TechnicalSettlements(hasKey) == IF hasKey THEN {"empty", "data"} ELSE {"empty"}

NoStockData == [ticker |-> "", close |-> 0, market_cap_basic |-> 0, RSI |-> 0,
                dataSource |-> "none", dataQuality |-> "none"]
IdleStockCall == [pc |-> "idle", ticker |-> "", cacheKey |-> <<>>,
                  fundamentals |-> "none", quote |-> "none", technicals |-> "none",
                  result |-> NoStockData]

UpstreamClose == Dollars(175)
\* this.generateTechnical('RSI'): Math.random() * 60 + 20
FallbackRsi == {20, 79}

\* assessDataQuality(fundamentals.value, quote.value)
assessDataQuality(fundamentals, quoteRet) ==
    LET score == (IF fundamentals = "data" THEN 25 + 25 ELSE 0)
                 + (IF quoteRet = "data" THEN 25 + 25 ELSE 0)
    IN  IF score >= 75 THEN "high" ELSE IF score >= 50 THEN "medium" ELSE "low"

\* the stockData literal of getStockData
BuildStockData(ticker, fundamentals, quoteRet, technicals, rsi) ==
    [ticker |-> ticker,
     close |-> IF quoteRet = "data" THEN UpstreamClose ELSE 0,
     market_cap_basic |-> IF fundamentals = "data" THEN 3000 ELSE 0,
     RSI |-> IF technicals = "data" THEN 55 ELSE rsi,
     dataSource |-> "live",
     dataQuality |-> assessDataQuality(fundamentals, quoteRet)]

StockInit ==
    /\ clock \in {0, StockWindow - 1}
    /\ alphaKey \in BOOLEAN
    /\ twelveKey \in BOOLEAN
    /\ stockCache = <<>>
    /\ stockCalls = [c \in StockCallIds |-> IdleStockCall]
    /\ ticks = 0
    /\ polygonKey = FALSE /\ cache = <<>> /\ calls = <<>>
    /\ LadderIdle /\ PricerIdle /\ MethodsIdle /\ AnalyzerIdle /\ ScreenIdle /\ AuxIdle

\* getStockData(ticker): the cache holds the key
StockCallCached(c, t) ==
    /\ stockCalls[c].pc = "idle"
    /\ StockCacheKey(t, clock) \in DOMAIN stockCache
    /\ stockCalls' = [stockCalls EXCEPT ![c] =
          [IdleStockCall EXCEPT !.pc = "done", !.ticker = t,
                                !.cacheKey = StockCacheKey(t, clock),
                                !.result = stockCache[StockCacheKey(t, clock)]]]
    /\ UNCHANGED <<alphaKey, twelveKey, stockCache, coreVars, analyzerVars, screenVars, auxVars>>

\* getStockData(ticker): a miss; the call awaits Promise.allSettled
StockCallFetches(c, t) ==
    /\ stockCalls[c].pc = "idle"
    /\ StockCacheKey(t, clock) \notin DOMAIN stockCache
    /\ stockCalls' = [stockCalls EXCEPT ![c] =
          [IdleStockCall EXCEPT !.pc = "fetching", !.ticker = t,
                                !.cacheKey = StockCacheKey(t, clock)]]
    /\ UNCHANGED <<alphaKey, twelveKey, stockCache, coreVars, analyzerVars, screenVars, auxVars>>

\* this.cache.set(cacheKey, stockData)
StockCacheSet(key, value) ==
    [k \in DOMAIN stockCache \cup {key} |-> IF k = key THEN value ELSE stockCache[k]]

\* the three fetches have settled: the record is built, cached and returned
StockFetchSettles(c) ==
    /\ stockCalls[c].pc = "fetching"
    /\ \E f \in Settlements(alphaKey), q \in Settlements(twelveKey),
          t \in TechnicalSettlements(alphaKey), rsi \in FallbackRsi :
          LET stock == BuildStockData(stockCalls[c].ticker, f, q, t, rsi)
          IN  /\ stockCache' = StockCacheSet(stockCalls[c].cacheKey, stock)
              /\ stockCalls' = [stockCalls EXCEPT ![c].pc = "done",
                                   ![c].fundamentals = f, ![c].quote = q,
                                   ![c].technicals = t, ![c].result = stock]
    /\ UNCHANGED <<alphaKey, twelveKey, coreVars, analyzerVars, screenVars, auxVars>>

StockTick ==
    /\ ticks < MaxStockTicks
    /\ clock' = clock + StockTickStep
    /\ ticks' = ticks + 1
    /\ UNCHANGED <<ladderVars, pricerVars, polygonKey, methodVars, cache, calls, extVars>>

StockNext ==
    \/ \E c \in StockCallIds, t \in Tickers : StockCallCached(c, t)
    \/ \E c \in StockCallIds, t \in Tickers : StockCallFetches(c, t)
    \/ \E c \in StockCallIds : StockFetchSettles(c)
    \/ StockTick

SpecStock == StockInit /\ [][StockNext]_vars

-----------------------------------------------------------------------------
(* Properties of the two caches and of getStockData's data source tag. *)

\* the call has issued an upstream fetch: it is awaiting it, or it returned
\* what the fetch gave (a cache hit carries no blob and is never a mock)
LeapsFetched(c) ==
    \/ calls[c].pc = "fetching"
    \/ /\ calls[c].pc = "done"
       /\ (calls[c].optionsData.kind # "none" \/ calls[c].result.dataSource = "mock")
StockFetched(c) ==
    \/ stockCalls[c].pc = "fetching"
    \/ stockCalls[c].pc = "done" /\ stockCalls[c].fundamentals # "none"

\* C18: for a ticker and a cache window at most one upstream fetch is issued
\* under any interleaving of calls, in getLeapsChains (10 minutes) and in
\* getStockData (5 minutes): no two calls with the same cache key both fetch.
C18_OneFetchPerWindow ==
    /\ \A c, d \in DOMAIN calls :
          (c # d /\ LeapsFetched(c) /\ LeapsFetched(d))
              => calls[c].cacheKey # calls[d].cacheKey
    /\ \A c, d \in DOMAIN stockCalls :
          (c # d /\ StockFetched(c) /\ StockFetched(d))
              => stockCalls[c].cacheKey # stockCalls[d].cacheKey

\* every upstream fetch of the call failed
AllFetchesFailed(c) ==
    /\ stockCalls[c].fundamentals \in {"rejected", "empty"}
    /\ stockCalls[c].quote \in {"rejected", "empty"}
    /\ stockCalls[c].technicals = "empty"

\* C20: when every upstream fetch for a ticker fails, getStockData returns a
\* record tagged fallback, and the cache never holds a record tagged live
\* that was built from no upstream data.
C20_FallbackIsTagged ==
    \A c \in DOMAIN stockCalls :
        (stockCalls[c].pc = "done" /\ AllFetchesFailed(c))
        => /\ stockCalls[c].result.dataSource = "fallback"
           /\ stockCalls[c].cacheKey \notin DOMAIN stockCache

-----------------------------------------------------------------------------
(* Helper functions: assessRiskProfile in its two copies (LeapsAnalyzer,     *)
(* src/unnamed/part_001, and the API handler, src/api/screener.js),          *)
(* assessOptionsLiquidity and getLeapsExpiration.  beta and debt/equity are  *)
(* in hundredths, return on equity in percent, market cap in billions of     *)
(* dollars.  A calendar date is <<year, monthIndex, day>> with monthIndex    *)
(* 0..11, as in JavaScript.  risk, liquidity and leapsExpiration hold the     *)
(* argument and the return value of the call in progress only.               *)

RiskLabel(riskScore) ==
    IF riskScore >= 6 THEN "High Risk"
    ELSE IF riskScore >= 3 THEN "Medium Risk" ELSE "Low Risk"

\* LeapsAnalyzer.assessRiskProfile(stockData)
AnalyzerRiskScore(stock) ==
    (IF stock.beta_1_year > 200 THEN 3
     ELSE IF stock.beta_1_year > 150 THEN 2
     ELSE IF stock.beta_1_year > 100 THEN 1 ELSE 0)
    + (IF stock.debt_to_equity > 200 THEN 2
       ELSE IF stock.debt_to_equity > 100 THEN 1 ELSE 0)
    + (IF stock.return_on_equity < 5 THEN 2 ELSE 0)
    + (IF stock.market_cap_basic < 2 THEN 2
       ELSE IF stock.market_cap_basic < 10 THEN 1 ELSE 0)
AnalyzerRiskProfile(stock) == RiskLabel(AnalyzerRiskScore(stock))

\* assessRiskProfile(stock) of the API handler
ApiRiskScore(stock) ==
    (IF stock.beta_1_year > 200 THEN 3
     ELSE IF stock.beta_1_year > 150 THEN 2
     ELSE IF stock.beta_1_year > 100 THEN 1 ELSE 0)
    + (IF stock.debt_to_equity > 200 THEN 2 ELSE 0)
    + (IF stock.return_on_equity < 10 THEN 2 ELSE 0)
    + (IF stock.market_cap_basic < 5 THEN 2 ELSE 0)
ApiRiskProfile(stock) == RiskLabel(ApiRiskScore(stock))

\* the sum of call.volume + put.volume over the options of a chain
RECURSIVE VolumeSum(_)
VolumeSum(options) ==
    IF options = <<>> THEN 0
    ELSE options[1].call + options[1].put + VolumeSum(Tail(options))

RECURSIVE LengthProduct(_)
LengthProduct(chains) ==
    IF chains = <<>> THEN 1 ELSE Len(chains[1]) * LengthProduct(Tail(chains))

\* the sum of the chain averages, times 2 * product: chainAvg is
\* VolumeSum / (length * 2)
RECURSIVE ChainAvgSum(_, _)
ChainAvgSum(chains, product) ==
    IF chains = <<>> THEN 0
    ELSE VolumeSum(chains[1]) * (product \div Len(chains[1]))
         + ChainAvgSum(Tail(chains), product)

\* avgVolume > threshold, avgVolume being the mean of the chain averages;
\* a chain without options makes its average 0 / 0, NaN, and no comparison
\* with NaN holds
AvgVolumeAbove(chains, threshold) ==
    /\ \A i \in 1..Len(chains) : chains[i] # <<>>
    /\ ChainAvgSum(chains, LengthProduct(chains))
          > threshold * 2 * LengthProduct(chains) * Len(chains)

assessOptionsLiquidity(chains) ==
    IF chains = <<>> THEN "Poor"
    ELSE IF AvgVolumeAbove(chains, 100) THEN "Excellent"
    ELSE IF AvgVolumeAbove(chains, 50) THEN "Good"
    ELSE IF AvgVolumeAbove(chains, 20) THEN "Fair"
    ELSE "Poor"

\* Date.prototype.setMonth(monthIndex, day): month and day overflow carry
NormalizeMonth(date) ==
    <<date[1] + date[2] \div 12, date[2] % 12, date[3]>>
NormalizeDate(date) ==
    LET d == NormalizeMonth(date)
        length == MonthDays(d[1])[d[2] + 1]
    IN  IF d[3] <= length THEN d ELSE NormalizeMonth(<<d[1], d[2] + 1, d[3] - length>>)

\* getLeapsExpiration(monthsOut), now being new Date()
getLeapsExpiration(now, monthsOut) ==
    LET date == NormalizeDate(<<now[1], now[2] + monthsOut, now[3]>>)
    IN  IF date[2] < 6 THEN <<date[1], 0, 15>> ELSE <<date[1], 5, 15>>

RiskStocks ==
    [beta_1_year : {80, 120, 160, 250}, debt_to_equity : {50, 150, 250},
     return_on_equity : {3, 7, 12}, market_cap_basic : {1, 3, 7, 20}]

Volumes(call, put) == [call |-> call, put |-> put]
LiquidityChains ==
    {<<>>,
     << <<Volumes(300, 300)>>, <<Volumes(0, 0), Volumes(0, 0), Volumes(0, 0)>> >>,
     << <<Volumes(120, 90), Volumes(110, 100)>>, <<Volumes(100, 102), Volumes(130, 70)>> >>,
     << <<Volumes(60, 50)>> >>,
     << <<Volumes(10, 20), Volumes(30, 40)>>, <<Volumes(25, 15)>> >>,
     << <<Volumes(5, 5), Volumes(10, 0)>> >>}

MonthsOutSet == {3, 12, 15, 18}
Today ==
    { <<y, m, d>> \in {BaseYear, BaseYear + 2} \X (0..11) \X {1, 14, 15, 16, 28, 31} :
          d <= MonthDays(y)[m + 1] }

HelperInit ==
    /\ helpPc = "idle"
    /\ risk = NoRisk
    /\ liquidity = NoLiquidity
    /\ leapsExpiration = NoExpiration
    /\ LadderIdle /\ PricerIdle /\ MethodsIdle /\ ServiceIdle /\ ClockIdle
    /\ AnalyzerIdle /\ ScreenIdle /\ StockIdle /\ BatchIdle /\ FrontIdle

AssessRiskProfile ==
    /\ \E stock \in RiskStocks :
          risk' = [beta_1_year |-> stock.beta_1_year,
                   debt_to_equity |-> stock.debt_to_equity,
                   return_on_equity |-> stock.return_on_equity,
                   market_cap_basic |-> stock.market_cap_basic,
                   analyzer |-> AnalyzerRiskProfile(stock),
                   api |-> ApiRiskProfile(stock)]
    /\ helpPc' = "risk"
    /\ liquidity' = NoLiquidity /\ leapsExpiration' = NoExpiration
    /\ UNCHANGED <<coreVars, analyzerVars, screenVars, stockVars, batchVars, frontVars>>

AssessOptionsLiquidity ==
    /\ \E chains \in LiquidityChains :
          liquidity' = [chains |-> chains, ret |-> assessOptionsLiquidity(chains)]
    /\ helpPc' = "liquidity"
    /\ risk' = NoRisk /\ leapsExpiration' = NoExpiration
    /\ UNCHANGED <<coreVars, analyzerVars, screenVars, stockVars, batchVars, frontVars>>

GetLeapsExpiration ==
    /\ \E now \in Today, monthsOut \in MonthsOutSet :
          leapsExpiration' = [now |-> now, monthsOut |-> monthsOut,
                              ret |-> getLeapsExpiration(now, monthsOut)]
    /\ helpPc' = "expiration"
    /\ risk' = NoRisk /\ liquidity' = NoLiquidity
    /\ UNCHANGED <<coreVars, analyzerVars, screenVars, stockVars, batchVars, frontVars>>

HelperNext == AssessRiskProfile \/ AssessOptionsLiquidity \/ GetLeapsExpiration

SpecHelpers == HelperInit /\ [][HelperNext]_vars

\* C21: both copies of assessRiskProfile label a stock by the score made of
\* the beta tier, the debt/equity tier (>2: 2, >1: 1), 2 if ROE < 5 and the
\* market-cap tier (< 2B: 2, < 10B: 1), and so agree on every stock record.
C21_RiskCopiesAgree ==
    helpPc = "risk" =>
        /\ risk.analyzer = RiskLabel(AnalyzerRiskScore(risk))
        /\ risk.api = RiskLabel(AnalyzerRiskScore(risk))
        /\ risk.api = risk.analyzer

RECURSIVE PooledVolume(_)
PooledVolume(chains) ==
    IF chains = <<>> THEN 0 ELSE VolumeSum(chains[1]) + PooledVolume(Tail(chains))
RECURSIVE PooledStrikes(_)
PooledStrikes(chains) ==
    IF chains = <<>> THEN 0 ELSE Len(chains[1]) + PooledStrikes(Tail(chains))
PooledAbove(chains, threshold) ==
    PooledVolume(chains) > threshold * 2 * PooledStrikes(chains)
PooledLiquidity(chains) ==
    IF PooledStrikes(chains) = 0 THEN "Poor"
    ELSE IF PooledAbove(chains, 100) THEN "Excellent"
    ELSE IF PooledAbove(chains, 50) THEN "Good"
    ELSE IF PooledAbove(chains, 20) THEN "Fair"
    ELSE "Poor"

\* C22: assessOptionsLiquidity classifies by the mean of
\* (call.volume + put.volume) / 2 over all strikes of all chains pooled.
C22_PooledMean ==
    helpPc = "liquidity" => liquidity.ret = PooledLiquidity(liquidity.chains)

\* months and days from the first date to the second, as a month count with
\* the day of month breaking ties
MonthsBetween(from, to) ==
    (to[1] - from[1]) * 12 + (to[2] - from[2]) - (IF to[3] < from[3] THEN 1 ELSE 0)
DateBefore(a, b) ==
    \/ a[1] < b[1]
    \/ a[1] = b[1] /\ a[2] < b[2]
    \/ a[1] = b[1] /\ a[2] = b[2] /\ a[3] < b[3]

\* C23: getLeapsExpiration(monthsOut) returns a January-15 or June-15 date at
\* least monthsOut months after the current date, and never a past date.
C23_ExpirationFarEnough ==
    helpPc = "expiration" =>
        /\ leapsExpiration.ret[2] \in {0, 5} /\ leapsExpiration.ret[3] = 15
        /\ MonthsBetween(leapsExpiration.now, leapsExpiration.ret)
              >= leapsExpiration.monthsOut
        /\ ~DateBefore(leapsExpiration.ret, leapsExpiration.now)

-----------------------------------------------------------------------------
(* MarketDataService.getBatchStockData (src/unnamed/part_002): the tickers   *)
(* are the indices 0 .. tickers - 1; the getStockData calls of a batch       *)
(* settle one by one in any order; clock is in seconds.  startedAt is the    *)
(* clock reading when the batch in progress was mapped, settledAt the        *)
(* reading when Promise.all resolved last, batches the number of batches     *)
(* settled so far.                                                           *)

BatchDelay == 12000 \div 1000
BatchTickStep == 4
MaxBatchTicks == 12
BatchSizes == 0..4
ConcurrencySet == {1, 2, 3, 5}

\* tickers.slice(i, i + maxConcurrent), as indices
BatchSlice(i, maxConcurrent, tickers) ==
    { k \in 0..(tickers - 1) : i <= k /\ k < i + maxConcurrent }

\* the indices i .. tickers - 1 of a batch in order, as Promise.all returns them
RECURSIVE InOrder(_, _)
InOrder(from, to) == IF from > to THEN <<>> ELSE <<from>> \o InOrder(from + 1, to)

DelayAlways(i, maxConcurrent, tickers) == TRUE

\* if (i + maxConcurrent < tickers.length)
DelayNeeded(i, maxConcurrent, tickers) == i + maxConcurrent < tickers

BatchInit ==
    /\ batch = NoBatch
    /\ clock = 0
    /\ polygonKey = FALSE
    /\ LadderIdle /\ PricerIdle /\ MethodsIdle /\ ServiceIdle
    /\ AnalyzerIdle /\ ScreenIdle /\ StockIdle /\ HelperIdle /\ FrontIdle

\* getBatchStockData(tickers, maxConcurrent) up to the first await, or to its
\* return when there is no ticker
GetBatchStockData ==
    /\ batch.pc = "idle"
    /\ \E tickers \in BatchSizes, maxConcurrent \in ConcurrencySet :
          batch' = IF tickers = 0
                   THEN [NoBatch EXCEPT !.pc = "done", !.maxConcurrent = maxConcurrent]
                   ELSE [NoBatch EXCEPT !.pc = "fetching", !.tickers = tickers,
                            !.maxConcurrent = maxConcurrent,
                            !.inFlight = BatchSlice(0, maxConcurrent, tickers),
                            !.startedAt = clock]
    /\ UNCHANGED <<coreVars, analyzerVars, screenVars, stockVars, helperVars, frontVars>>

\* one getStockData promise of the batch settles
BatchFetchSettles ==
    /\ batch.pc = "fetching"
    /\ \E k \in batch.inFlight : batch' = [batch EXCEPT !.inFlight = @ \ {k}]
    /\ UNCHANGED <<coreVars, analyzerVars, screenVars, stockVars, helperVars, frontVars>>

\* Promise.all resolves: the results are pushed, then the delay is awaited
\* or the loop ends
BatchAllSettled ==
    /\ batch.pc = "fetching"
    /\ batch.inFlight = {}
    /\ LET last == Min(batch.i + batch.maxConcurrent, batch.tickers) - 1
           pushed == [batch EXCEPT !.results = @ \o InOrder(batch.i, last),
                                   !.settledAt = clock, !.batches = @ + 1]
       IN  batch' = IF DelayNeeded(batch.i, batch.maxConcurrent, batch.tickers)
                    THEN [pushed EXCEPT !.pc = "delay", !.delayUntil = clock + BatchDelay]
                    ELSE [pushed EXCEPT !.pc = "done", !.i = @ + batch.maxConcurrent]
    /\ UNCHANGED <<coreVars, analyzerVars, screenVars, stockVars, helperVars, frontVars>>

\* the timer of this.delay(12000) fires: the loop steps and maps the next
\* batch, or ends
BatchDelayElapsed ==
    /\ batch.pc = "delay"
    /\ clock >= batch.delayUntil
    /\ LET next == batch.i + batch.maxConcurrent
       IN  batch' = IF next < batch.tickers
                    THEN [batch EXCEPT !.pc = "fetching", !.i = next,
                             !.inFlight = BatchSlice(next, batch.maxConcurrent, batch.tickers),
                             !.startedAt = clock]
                    ELSE [batch EXCEPT !.pc = "done", !.i = next]
    /\ UNCHANGED <<coreVars, analyzerVars, screenVars, stockVars, helperVars, frontVars>>

BatchTick ==
    /\ clock < MaxBatchTicks * BatchTickStep
    /\ clock' = clock + BatchTickStep
    /\ UNCHANGED <<ladderVars, pricerVars, polygonKey, methodVars, serviceVars, extVars>>

BatchNext ==
    \/ GetBatchStockData
    \/ BatchFetchSettles
    \/ BatchAllSettled
    \/ BatchDelayElapsed
    \/ BatchTick

SpecBatch == BatchInit /\ [][BatchNext]_vars

\* C24: at most maxConcurrent getStockData calls are in flight; a batch after
\* the first starts only once every fetch of the batch before it has settled
\* and 12 seconds have then elapsed; no delay is awaited after the last batch.
C24_BatchesAreThrottled ==
    /\ Cardinality(batch.inFlight) <= batch.maxConcurrent
    /\ (batch.pc = "fetching" /\ batch.i > 0)
          => /\ batch.startedAt >= batch.settledAt + BatchDelay
             /\ Len(batch.results) = batch.i
    /\ batch.pc = "delay"
          => /\ batch.inFlight = {}
             /\ Len(batch.results) < batch.tickers

C24_Witness ==
    /\ batch.pc = "done"
    /\ batch.batches >= 2
    /\ Len(batch.results) = batch.tickers
    /\ batch.startedAt >= BatchDelay

-----------------------------------------------------------------------------
(* LeapsAnalyzer applied to the chain sets OptionsDataService builds: the    *)
(* analyzer reads prices in cents, the service's quotes hold them in         *)
(* millionths of a dollar.                                                   *)

AnalyzerQuote(q) == [delta |-> q.delta, midPrice |-> q.midPrice \div MicroPerCent]

AnalyzerView(data) ==
    [leapsAvailable |-> data.leapsAvailable,
     chains |-> [ i \in 1..Len(data.chains) |->
                    LET options == ChainOptions(data.chains[i])
                    IN  [expiration |-> data.chains[i].expiration,
                         daysToExpiry |-> data.chains[i].daysToExpiry,
                         options |-> [ k \in 1..Len(options) |->
                                         [strike |-> options[k].strike,
                                          call |-> AnalyzerQuote(options[k].call),
                                          put |-> AnalyzerQuote(options[k].put)] ]] ]]

BuiltStocks ==
    { [s EXCEPT !.close = c] :
        s \in { a \in AnalyzerStocks : a.close = Dollars(200)
                                       /\ a.total_revenue_yoy_growth_ttm = 30
                                       /\ a.price_earnings_ttm = 15
                                       /\ a.return_on_equity = 15 },
        c \in {120 * CentsPerDollar, 50 * CentsPerDollar} }

BuiltInit ==
    /\ mpc = "start"
    /\ clock \in ServiceStarts
    /\ polygonKey \in BOOLEAN
    /\ raw = NoBlob
    /\ leapsData = NoData
    /\ chain = None
    /\ LadderIdle /\ PricerIdle /\ ServiceIdle /\ ExtIdle

\* processOptionsData on what the upstream answered
BuildLeapsData ==
    /\ mpc = "start"
    /\ \E r \in { b \in ServiceBlobs(clock) : b.kind # "undefined" },
          draws \in ServiceDraws :
          /\ raw' = r
          /\ leapsData' = processOptionsData("AAPL", r, clock, polygonKey, draws)
    /\ mpc' = "processed"
    /\ UNCHANGED <<chain, clock, polygonKey, ladderVars, pricerVars, serviceVars, extVars>>

BuildMockLeapsData ==
    /\ mpc = "start"
    /\ \E draws \in ServiceDraws :
          leapsData' = generateMockLeapsData("AAPL", clock, draws)
    /\ mpc' = "mocked"
    /\ UNCHANGED <<raw, chain, clock, polygonKey, ladderVars, pricerVars, serviceVars, extVars>>

\* generateLeapsChain on an expiration of its caller's choice
BuildLeapsChain ==
    /\ mpc = "start"
    /\ \E e \in DirectExpirations(clock), p \in FallbackPrices, r \in ChainRnds :
          /\ raw' = [kind |-> "other", dates |-> <<>>, quote |-> NoQuote]
          /\ chain' = generateLeapsChain(e, raw', clock, [price |-> p, rnd |-> r])
    /\ mpc' = "chained"
    /\ UNCHANGED <<leapsData, clock, polygonKey, ladderVars, pricerVars, serviceVars, extVars>>

\* analyzeStock and analyzeProtectivePut on the chain set built
AnalyzeBuilt ==
    /\ mpc \in {"processed", "mocked"}
    /\ apc = "idle"
    /\ \E stock \in BuiltStocks :
          /\ stockData' = stock
          /\ optionsData' = AnalyzerView(leapsData)
          /\ analysis' = analyzeStock(stock, optionsData')
          /\ strategyRet' = IF leapsData.chains = <<>> THEN NoReturn
                            ELSE Analyzer("protective_put", stock, optionsData')
          /\ evaluated' = <<>>
    /\ apc' = "analyzed"
    /\ UNCHANGED <<coreVars, screenVars, stockVars, auxVars>>

BuiltNext == BuildLeapsData \/ BuildMockLeapsData \/ BuildLeapsChain \/ AnalyzeBuilt

SpecBuilt == BuiltInit /\ [][BuiltNext]_vars

\* the delta a put quote of the chain reports is a number: generateOptionData
\* computes NaN for a chain past its expiration, and at expiration for a
\* strike equal to the spot
PutDeltaIsNumber(c, strike) ==
    \/ c.daysToExpiry >= 1
    \/ c.daysToExpiry = 0 /\ DivFix(strike, c.spot) # One

PutDeltasAreAbsolute(c) ==
    /\ \A k \in 1..Len(c.strikes) : PutDeltaIsNumber(c, c.strikes[k])
    /\ LET options == ChainOptions(c)
       IN  \A k \in 1..Len(options) : options[k].put.delta >= 0

NoProtectivePut ==
    apc = "analyzed" =>
        /\ leapsData.chains # <<>> =>
              /\ ~strategyRet.threw /\ ~strategyRet.viable
              /\ strategyRet.reason = "No suitable protective puts available"
        /\ \A i \in 1..Len(analysis.recommendations) :
              analysis.recommendations[i].strategy # "protective_put"

C26_SingleSpot ==
    \A c \in DOMAIN calls :
        calls[c].pc = "done" =>
            \A i, j \in 1..Len(calls[c].result.chains) :
                /\ calls[c].result.chains[i].spot = calls[c].result.chains[j].spot

\* C27: for every spot > 0 the at-the-money strike of a chain lies within one
\* strike interval of the spot: the 30-strike ladder reaches the spot price.
C27_LadderReachesSpot ==
    (lpc = "atm" /\ atmSpot = currentPrice) =>
        Dist(atmStrike, currentPrice) <= getStrikeInterval(currentPrice)

\* C28: for spot > 0, strike > 0, daysToExpiry >= 1 and volatility in
\* [0.25, 0.55] a call quote's midPrice is at most the spot price.
C28_CallCostsAtMostSpot ==
    (ppc = "priced" /\ args.type = "call") =>
        quote.midPrice <= args.spotPrice * MicroPerCent

\* the stock_replacement entries of the handler's recommendations
StockReplacements ==
    { i \in 1..Len(leapsAnalysis.recommendations) :
        leapsAnalysis.recommendations[i].strategy = "stock_replacement" }

\* C29: for every stock with close > 0 for which generateLeapsRecommendations
\* emits a stock_replacement recommendation, economics.breakeven is
\* 1.08 * close, above the current price, and economics.expectedReturn is
\* strictly negative.
C29_BreakevenAboveSpot ==
    hpc \in {"handled", "recommended"} =>
        \A i \in StockReplacements :
            /\ leapsAnalysis.recommendations[i].breakeven = 108 * candidate.close
            /\ leapsAnalysis.recommendations[i].breakeven > 100 * candidate.close
            /\ leapsAnalysis.recommendations[i].expectedReturn < 0

C29_Witness ==
    /\ hpc = "recommended"
    /\ candidate.close > 0
    /\ StockReplacements # {}
    /\ \E i \in StockReplacements : leapsAnalysis.recommendations[i].viable

-----------------------------------------------------------------------------
(* The front end (src/index/js/main.js): runScreening, started by a click on *)
(* the Run button, with runScreeningAPI and its client-side fallback.  A     *)
(* step runs from one await to the next; a disabled button dispatches no     *)
(* click.                                                                    *)

MaxRuns == 3
FrontRunIds == 1..MaxRuns

IdleRun == [pc |-> "idle", path |-> "none", outcome |-> "none"]
FreshUi == [disabled |-> FALSE, loadingHidden |-> TRUE, resultsHidden |-> TRUE,
            errorHidden |-> TRUE]

showLoadingState(u) ==
    [u EXCEPT !.disabled = TRUE, !.loadingHidden = FALSE, !.resultsHidden = TRUE]

hideLoadingStateIndicatorOnly(u) == [u EXCEPT !.loadingHidden = TRUE]

hideLoadingState(u) == [u EXCEPT !.disabled = FALSE, !.loadingHidden = TRUE]

hideError(u) == [u EXCEPT !.errorHidden = TRUE]

\* showError(message), its timer apart
showError(u) == [u EXCEPT !.errorHidden = FALSE]

\* catch (error) { this.hideLoadingState(); this.showError(error.message); }
Caught(r, path) ==
    /\ ui' = showError(hideLoadingState(ui))
    /\ errorTimers' = errorTimers + 1
    /\ runs' = [runs EXCEPT ![r] = [pc |-> "settled", path |-> path, outcome |-> "error"]]

\* this.displayResults(results); this.hideLoadingState(); or the catch when
\* rendering throws
Displayed(r, path, renderThrows) ==
    IF renderThrows THEN Caught(r, path)
    ELSE /\ ui' = hideLoadingState([ui EXCEPT !.resultsHidden = FALSE])
         /\ errorTimers' = errorTimers
         /\ runs' = [runs EXCEPT ![r] = [pc |-> "settled", path |-> path,
                                         outcome |-> "shown"]]

FrontInit ==
    /\ runs = [r \in FrontRunIds |-> IdleRun]
    /\ ui = FreshUi
    /\ errorTimers = 0
    /\ LadderIdle /\ PricerIdle /\ MethodsIdle /\ ServiceIdle /\ ClockIdle
    /\ AnalyzerIdle /\ ScreenIdle /\ StockIdle /\ HelperIdle /\ BatchIdle

\* a click on the Run button: runScreening up to its await, or to its end when
\* validateCriteria fails
RunScreening(r) ==
    /\ ~ui.disabled
    /\ runs[r].pc = "idle"
    /\ \A q \in FrontRunIds : q < r => runs[q].pc # "idle"
    /\ \E valid \in BOOLEAN :
          IF valid
          THEN /\ ui' = hideError(showLoadingState(ui))
               /\ runs' = [runs EXCEPT ![r].pc = "fetch"]
               /\ errorTimers' = errorTimers
          ELSE /\ ui' = showError(hideLoadingState(hideError(showLoadingState(ui))))
               /\ errorTimers' = errorTimers + 1
               /\ runs' = [runs EXCEPT ![r] = [pc |-> "settled", path |-> "validation",
                                               outcome |-> "error"]]
    /\ UNCHANGED <<coreVars, analyzerVars, screenVars, stockVars, helperVars, batchVars>>

\* await fetch('/api/screener', ...) settles: a response that is ok, one that
\* is not, or a rejection
FetchSettles(r) ==
    /\ runs[r].pc = "fetch"
    /\ \E answer \in {"ok", "notOk", "rejected"} :
          runs' = [runs EXCEPT ![r].pc = IF answer = "ok" THEN "json" ELSE "fallback"]
    /\ UNCHANGED <<ui, errorTimers, coreVars, analyzerVars, screenVars, stockVars,
                   helperVars, batchVars>>

\* await response.json() settles: success, an error body or no JSON at all
JsonSettles(r) ==
    /\ runs[r].pc = "json"
    /\ \E body \in {"success", "failure", "rejected"}, renderThrows \in BOOLEAN :
          IF body = "success" THEN Displayed(r, "api", renderThrows)
          ELSE /\ runs' = [runs EXCEPT ![r].pc = "fallback"]
               /\ UNCHANGED <<ui, errorTimers>>
    /\ UNCHANGED <<coreVars, analyzerVars, screenVars, stockVars, helperVars, batchVars>>

\* await this.screener.runLeapsScreener(criteria) settles, after its
\* 1.5-second timer: results, or the error it rethrows
FallbackSettles(r) ==
    /\ runs[r].pc = "fallback"
    /\ \E threw \in BOOLEAN, renderThrows \in BOOLEAN :
          IF threw THEN Caught(r, "fallback")
          ELSE Displayed(r, "fallback", renderThrows)
    /\ UNCHANGED <<coreVars, analyzerVars, screenVars, stockVars, helperVars, batchVars>>

\* setTimeout(() => { this.hideError(); }, 10000) fires
ErrorTimerFires ==
    /\ errorTimers > 0
    /\ errorTimers' = errorTimers - 1
    /\ ui' = hideError(ui)
    /\ UNCHANGED <<runs, coreVars, analyzerVars, screenVars, stockVars, helperVars,
                   batchVars>>

FrontNext ==
    \/ \E r \in FrontRunIds : RunScreening(r)
    \/ \E r \in FrontRunIds : FetchSettles(r)
    \/ \E r \in FrontRunIds : JsonSettles(r)
    \/ \E r \in FrontRunIds : FallbackSettles(r)
    \/ ErrorTimerFires

\* every fetch settles (the browser ends a request that gets no answer), and
\* a timer fires
FrontFairness ==
    /\ \A r \in FrontRunIds : WF_vars(FetchSettles(r))
    /\ \A r \in FrontRunIds : WF_vars(JsonSettles(r))
    /\ \A r \in FrontRunIds : WF_vars(FallbackSettles(r))
    /\ WF_vars(ErrorTimerFires)

SpecFront == FrontInit /\ [][FrontNext]_vars /\ FrontFairness

InFlight == { r \in FrontRunIds : runs[r].pc \in {"fetch", "json", "fallback"} }

RunButtonGuards ==
    /\ Cardinality(InFlight) <= 1
    /\ InFlight # {} => ui.disabled /\ ~ui.loadingHidden
    /\ InFlight = {} => ~ui.disabled /\ ui.loadingHidden

\* C30: while a run of runScreening is in flight the Run button is disabled,
\* so at most one run is in flight; and every run, whether the API succeeds,
\* the fallback is used, validation fails or rendering throws, eventually
\* ends, with the Run button enabled again and the loading indicator hidden.
C30_RunsEndEnabled ==
    /\ []RunButtonGuards
    /\ \A r \in FrontRunIds :
          (runs[r].pc # "idle") ~>
              (runs[r].pc = "settled" /\ (InFlight = {} => ~ui.disabled /\ ui.loadingHidden))

C30_Witness ==
    /\ \E r \in FrontRunIds :
          runs[r].pc = "settled" /\ runs[r].path = "fallback" /\ runs[r].outcome = "error"
    /\ \E r \in FrontRunIds :
          runs[r].pc = "settled" /\ runs[r].path = "api" /\ runs[r].outcome = "shown"
    /\ \E r \in FrontRunIds : runs[r].path = "validation"
    /\ InFlight = {}
    /\ ~ui.disabled /\ ui.loadingHidden

====
